---- MODULE Spec2Model ----
(***************************************************************************)
(* Model of corebrain/core/query.py: the two-tier QueryCache (memory tier  *)
(* with LRU list, payload files, cache_metadata index) and its key         *)
(* derivation _get_hash.                                                   *)
(*                                                                         *)
(* Strings are sequences of one-character strings.  An optional argument   *)
(* (collection_name) is a sequence of length at most one: <<>> is None.    *)
(***************************************************************************)
EXTENDS Integers, Sequences, FiniteSets, TLC

VARIABLES
    memory_cache,       \* key -> result            (self.memory_cache)
    memory_timestamps,  \* key -> time of insertion (self.memory_timestamps)
    memory_lru,         \* sequence of keys, least recently used first
    memory_limit,       \* constructor argument
    ttl,                \* constructor argument
    files,              \* key -> [data, mtime]: the <key>.cache payload files
    db,                 \* key -> row of table cache_metadata
    now,                \* the clock read by time.time() / datetime.now()
    step,               \* number of completed calls
    recency,            \* history: keys in the order of their latest set, memory hit or promotion
    lastSet,            \* history: key -> value and time of its latest set
    last,               \* history: the last completed call and what it returned
    fp,                 \* fingerprinting runs: two requests and their keys
    templates,          \* QueryAnalyzer.templates: the registry, in order
    template_file,      \* the content of the file at QueryAnalyzer.template_path
    tcase,              \* template runs: the call made and what it returned
    query_log,          \* table query_log of the analyzer's database, in insertion order
    query_patterns,     \* table query_patterns: pattern -> its statistics
    callers             \* concurrent callers: each one's position and local values

vars == <<memory_cache, memory_timestamps, memory_lru, memory_limit, ttl,
          files, db, now, step, recency, lastSet, last, fp,
          templates, template_file, tcase, query_log, query_patterns, callers>>

templateVars == <<templates, template_file, tcase>>

logVars == <<query_log, query_patterns, callers>>

cacheVars == <<memory_cache, memory_timestamps, memory_lru, memory_limit, ttl,
               files, db, now, step, recency, lastSet, last>>

(***************************************************************************)
(* Bounds                                                                  *)
(***************************************************************************)
MaxTime  == 2    \* the clock runs over 0..MaxTime
MaxSteps == 4    \* number of calls made on one cache
MaxLimit == 2    \* memory_limit is drawn from 0..MaxLimit
MaxTTL   == 2    \* ttl is drawn from 1..MaxTTL
MaxOlder == 1    \* clear(older_than) is drawn from 0..MaxOlder and None
MaxQLen  == 4    \* longest question spelling that is fingerprinted
MaxSepQ  == 1    \* longest question fingerprinted with a "|" in the alphabet
MaxSepC  == 2    \* longest configuration id fingerprinted with a "|" in the alphabet
MaxSepS  == 1    \* longest scope fingerprinted with a "|" in the alphabet
MaxFaultSteps == 3  \* number of calls made on one cache over a failing disk
MaxPieces == 3      \* a matched pattern is made of at most MaxPieces pieces
MaxQuestionLen == 3 \* longest question matched against a pattern
MaxShapeLen == 4    \* longest query shape that is substituted
MaxParams == 2      \* most parameters handed to generate_query
MaxSaves == 3       \* custom templates in the registry of a live analyzer

(***************************************************************************)
(* Strings                                                                 *)
(***************************************************************************)
None == "None"
NoScope == <<>>
Some(s) == <<s>>

RECURSIVE SeqsUpTo(_, _)
SeqsUpTo(S, n) ==
    IF n = 0 THEN {<<>>}
    ELSE LET shorter == SeqsUpTo(S, n - 1)
         IN  shorter \cup {Append(w, ch) : w \in {x \in shorter : Len(x) = n - 1}, ch \in S}

\* str.isspace / the regex class \s
IsSpace(ch) == ch \in {" ", "\t", "\n"}

\* str.lower, one character
LowerChar(ch) ==
    CASE ch = "A" -> "a"
      [] ch = "B" -> "b"
      [] OTHER    -> ch

\* str.lower
Lower(q) == [i \in 1..Len(q) |-> LowerChar(q[i])]

RECURSIVE LStrip(_)
LStrip(q) ==
    IF q = <<>> THEN <<>>
    ELSE IF IsSpace(Head(q)) THEN LStrip(Tail(q)) ELSE q

RECURSIVE RStrip(_)
RStrip(q) ==
    IF q = <<>> THEN <<>>
    ELSE IF IsSpace(q[Len(q)]) THEN RStrip(SubSeq(q, 1, Len(q) - 1)) ELSE q

\* str.strip
Strip(q) == RStrip(LStrip(q))

\* re.sub(r'\s+', ' ', q): every maximal whitespace run becomes one space
RECURSIVE CollapseWs(_)
CollapseWs(q) ==
    IF q = <<>> THEN <<>>
    ELSE IF IsSpace(Head(q)) THEN <<" ">> \o CollapseWs(LStrip(q))
    ELSE <<Head(q)>> \o CollapseWs(Tail(q))

\* hashlib.md5(x.encode()).hexdigest(), taken as injective
Md5(x) == <<"md5", x>>

\* normalized_query of _get_hash (query.py line 75)
NormalizeNoLower(query) == CollapseWs(Strip(query))
normalized_query(query) == CollapseWs(Strip(Lower(query)))

\* hash_input of _get_hash (query.py lines 78-80); an empty collection_name
\* is falsy and adds nothing
hash_input(query, config_id, collection_name) ==
    LET base == normalized_query(query) \o <<"|">> \o config_id
    IN  IF collection_name # NoScope /\ collection_name[1] # <<>>
        THEN base \o <<"|">> \o collection_name[1]
        ELSE base

_get_hash(query, config_id, collection_name) ==
    Md5(hash_input(query, config_id, collection_name))

(***************************************************************************)
(* Partial maps (Python dicts, the directory of payload files, the table)  *)
(***************************************************************************)
Empty == <<>>
Put(f, k, v) == [x \in (DOMAIN f) \cup {k} |-> IF x = k THEN v ELSE f[x]]
Drop(f, k) == [x \in (DOMAIN f) \ {k} |-> f[x]]
Restrict(f, S) == [x \in (DOMAIN f) \cap S |-> f[x]]

InSeq(x, seq) == \E i \in 1..Len(seq) : seq[i] = x
Elems(seq) == {seq[i] : i \in 1..Len(seq)}

\* list.remove(x): removes the first occurrence
RECURSIVE RemoveFirst(_, _)
RemoveFirst(seq, x) ==
    IF seq = <<>> THEN <<>>
    ELSE IF Head(seq) = x THEN Tail(seq)
    ELSE <<Head(seq)>> \o RemoveFirst(Tail(seq), x)

RECURSIVE Without(_, _)
Without(seq, S) ==
    IF seq = <<>> THEN <<>>
    ELSE IF Head(seq) \in S THEN Without(Tail(seq), S)
    ELSE <<Head(seq)>> \o Without(Tail(seq), S)

\* pickle.dump / pickle.load; a payload that does not load is Corrupt
Pickle(v) == <<"pickle", v>>
Corrupt == <<"corrupt">>
Loads_Never(data) == FALSE
Loads(data) == data # Corrupt
Unpickle(data) == data[2]

(***************************************************************************)
(* Requests made on the cache                                              *)
(***************************************************************************)
Values == {"v1", "v2"}

Req(q, c, s) == [query |-> q, config_id |-> c, collection_name |-> s]

\* two questions, and the first of them with a scope
Requests ==
    { Req(<<"A", " ", "b">>, <<"x">>, NoScope),
      Req(<<"b">>, <<"x">>, NoScope),
      Req(<<"A", " ", "b">>, <<"x">>, Some(<<"t">>)) }

KeyOf(r) == _get_hash(r.query, r.config_id, r.collection_name)
Keys == {KeyOf(r) : r \in Requests}

NoReq == Req(<<>>, <<>>, NoScope)
NoKey == <<>>

(***************************************************************************)
(* QueryCache                                                              *)
(***************************************************************************)
Memory == [cache |-> memory_cache, ts |-> memory_timestamps, lru |-> memory_lru]

\* the index update without the hit_count increment
_update_metadata_NoCount(d, query_hash, query, config_id, t) ==
    IF query_hash \in DOMAIN d
    THEN [d EXCEPT ![query_hash].last_accessed = t]
    ELSE Put(d, query_hash, [query |-> query, config_id |-> config_id,
                             created_at |-> t, last_accessed |-> t,
                             hit_count |-> 1])

\* QueryCache._update_metadata on table d at time t
_update_metadata(d, query_hash, query, config_id, t) ==
    IF query_hash \in DOMAIN d
    THEN [d EXCEPT ![query_hash].last_accessed = t,
                   ![query_hash].hit_count = @ + 1]
    ELSE Put(d, query_hash, [query |-> query, config_id |-> config_id,
                             created_at |-> t, last_accessed |-> t,
                             hit_count |-> 1])

\* the LRU update that appends new keys but leaves a known key where it is
_update_memory_lru_NoMove(m, query_hash) ==
    LET lru1 == IF InSeq(query_hash, m.lru) THEN m.lru ELSE Append(m.lru, query_hash)
    IN  IF Len(lru1) > memory_limit
        THEN LET oldest_hash == Head(lru1)
             IN  IF oldest_hash \in DOMAIN m.cache
                 THEN [cache |-> Drop(m.cache, oldest_hash),
                       ts    |-> Drop(m.ts, oldest_hash),
                       lru   |-> Tail(lru1)]
                 ELSE [m EXCEPT !.lru = Tail(lru1)]
        ELSE [m EXCEPT !.lru = lru1]

\* the LRU update that evicts from the list but not from the maps
_update_memory_lru_KeepMaps(m, query_hash) ==
    LET moved == IF InSeq(query_hash, m.lru)
                 THEN RemoveFirst(m.lru, query_hash) ELSE m.lru
        lru1  == Append(moved, query_hash)
    IN  IF Len(lru1) > memory_limit
        THEN [m EXCEPT !.lru = Tail(lru1)]
        ELSE [m EXCEPT !.lru = lru1]

\* QueryCache._update_memory_lru on memory tier m
_update_memory_lru(m, query_hash) ==
    LET moved == IF InSeq(query_hash, m.lru)
                 THEN RemoveFirst(m.lru, query_hash) ELSE m.lru
        lru1  == Append(moved, query_hash)
    IN  IF Len(lru1) > memory_limit
        THEN LET oldest_hash == Head(lru1)
             IN  IF oldest_hash \in DOMAIN m.cache
                 THEN [cache |-> Drop(m.cache, oldest_hash),
                       ts    |-> Drop(m.ts, oldest_hash),
                       lru   |-> Tail(lru1)]
                 ELSE [m EXCEPT !.lru = Tail(lru1)]
        ELSE [m EXCEPT !.lru = lru1]

\* get, lines 178-181: the loaded result enters the memory tier
promote_NoInsert(m, query_hash, result, t) == m
promote(m, query_hash, result, t) ==
    _update_memory_lru([cache |-> Put(m.cache, query_hash, result),
                        ts    |-> Put(m.ts, query_hash, t),
                        lru   |-> m.lru], query_hash)

\* set, lines 215-217: the payload file is written
write_payload_Skip(f, query_hash, result, t) == f
write_payload(f, query_hash, result, t) ==
    Put(f, query_hash, [data |-> Pickle(result), mtime |-> t])

\* get, lines 189 and 192: cache_path.unlink(missing_ok=True)
unlink_All(f, query_hash) == Empty
unlink_Keep(f, query_hash) == f
unlink(f, query_hash) == Drop(f, query_hash)

Outcome(m, f, d, ret, raised, kind) ==
    [m |-> m, files |-> f, db |-> d, ret |-> ret, raised |-> raised, kind |-> kind]

\* QueryCache.get; fault "index" makes _update_metadata raise
get(query, config_id, collection_name, fault) ==
    LET query_hash == _get_hash(query, config_id, collection_name)
        m0 == Memory
        inMemory == query_hash \in DOMAIN m0.cache
        fresh == inMemory /\ (now - m0.ts[query_hash]) < ttl
        \* lines 161-166: expired in memory
        m1 == IF inMemory /\ ~fresh
              THEN [cache |-> Drop(m0.cache, query_hash),
                    ts    |-> Drop(m0.ts, query_hash),
                    lru   |-> IF InSeq(query_hash, m0.lru)
                              THEN RemoveFirst(m0.lru, query_hash) ELSE m0.lru]
              ELSE m0
    IN  IF fresh
        THEN \* lines 156-160: memory hit
             LET m2 == _update_memory_lru(m0, query_hash)
             IN  IF fault = "index" \/ query_hash \notin DOMAIN m2.cache
                 THEN Outcome(m2, files, db, None, TRUE, "memory")
                 ELSE Outcome(m2, files,
                              _update_metadata(db, query_hash, query, config_id, now),
                              m2.cache[query_hash], FALSE, "memory")
        ELSE IF query_hash \in DOMAIN files
        THEN IF (now - files[query_hash].mtime) < ttl
             THEN IF Loads(files[query_hash].data)
                  THEN \* lines 175-185: disk hit, promotion
                       LET result == Unpickle(files[query_hash].data)
                           m3 == promote(m1, query_hash, result, now)
                       IN  IF fault = "index"
                           THEN \* lines 186-189: the except branch
                                Outcome(m3, unlink(files, query_hash), db, None, FALSE, "error")
                           ELSE Outcome(m3, files,
                                        _update_metadata(db, query_hash, query, config_id, now),
                                        result, FALSE, "disk")
                  ELSE \* lines 186-189: pickle.load raised
                       Outcome(m1, unlink(files, query_hash), db, None, FALSE, "error")
             ELSE \* lines 190-192: expired file
                  Outcome(m1, unlink(files, query_hash), db, None, FALSE, "expired")
        ELSE Outcome(m1, files, db, None, FALSE, "miss")

\* a set that lets a persistence failure escape to the caller
set_Propagates(query, config_id, result, collection_name, fault) ==
    LET query_hash == _get_hash(query, config_id, collection_name)
        m1 == [cache |-> Put(memory_cache, query_hash, result),
               ts    |-> Put(memory_timestamps, query_hash, now),
               lru   |-> memory_lru]
        m2 == _update_memory_lru(m1, query_hash)
    IN  IF fault = "none"
        THEN Outcome(m2, write_payload(files, query_hash, result, now),
                     _update_metadata(db, query_hash, query, config_id, now),
                     None, FALSE, "set")
        ELSE Outcome(m2, files, db, None, TRUE, "set")

\* QueryCache.set; fault "open": the file cannot be opened, "dump": pickle.dump
\* raises after open() truncated the file, "index": _update_metadata raises
set(query, config_id, result, collection_name, fault) ==
    LET query_hash == _get_hash(query, config_id, collection_name)
        m1 == [cache |-> Put(memory_cache, query_hash, result),
               ts    |-> Put(memory_timestamps, query_hash, now),
               lru   |-> memory_lru]
        m2 == _update_memory_lru(m1, query_hash)
        f2 == CASE fault = "open" -> files
                [] fault = "dump" -> Put(files, query_hash, [data |-> Corrupt, mtime |-> now])
                [] OTHER -> write_payload(files, query_hash, result, now)
        d2 == IF fault = "none"
              THEN _update_metadata(db, query_hash, query, config_id, now)
              ELSE db
    IN  Outcome(m2, f2, d2, None, FALSE, "set")

\* a clear whose full wipe leaves the payload files behind
clear_KeepFiles(older_than) ==
    IF older_than # 0
    THEN LET keys_to_remove == {k \in DOMAIN memory_timestamps :
                                    (now - memory_timestamps[k]) > older_than}
             cutoff_time == now - older_than
             old_hashes == {k \in DOMAIN db : db[k].last_accessed < cutoff_time}
         IN  Outcome([cache |-> Restrict(memory_cache, (DOMAIN memory_cache) \ keys_to_remove),
                      ts    |-> Restrict(memory_timestamps, (DOMAIN memory_timestamps) \ keys_to_remove),
                      lru   |-> Without(memory_lru, keys_to_remove)],
                     Restrict(files, (DOMAIN files) \ old_hashes),
                     Restrict(db, (DOMAIN db) \ old_hashes),
                     None, FALSE, "clear")
    ELSE Outcome([cache |-> Empty, ts |-> Empty, lru |-> <<>>],
                 files, Empty, None, FALSE, "clear")

\* QueryCache.clear; older_than = 0 stands for both None and 0 (falsy)
clear(older_than) ==
    IF older_than # 0
    THEN LET keys_to_remove == {k \in DOMAIN memory_timestamps :
                                    (now - memory_timestamps[k]) > older_than}
             cutoff_time == now - older_than
             old_hashes == {k \in DOMAIN db : db[k].last_accessed < cutoff_time}
         IN  Outcome([cache |-> Restrict(memory_cache, (DOMAIN memory_cache) \ keys_to_remove),
                      ts    |-> Restrict(memory_timestamps, (DOMAIN memory_timestamps) \ keys_to_remove),
                      lru   |-> Without(memory_lru, keys_to_remove)],
                     Restrict(files, (DOMAIN files) \ old_hashes),
                     Restrict(db, (DOMAIN db) \ old_hashes),
                     None, FALSE, "clear")
    ELSE Outcome([cache |-> Empty, ts |-> Empty, lru |-> <<>>],
                 Empty, Empty, None, FALSE, "clear")

(***************************************************************************)
(* The cache as a state machine                                            *)
(***************************************************************************)
Call(op, r, val, older, out) ==
    [op |-> op, req |-> r, key |-> IF op = "clear" THEN NoKey ELSE KeyOf(r),
     val |-> val, older |-> older, ret |-> out.ret, raised |-> out.raised,
     kind |-> out.kind, time |-> now]

NoCall ==
    [op |-> "init", req |-> NoReq, key |-> NoKey, val |-> None, older |-> 0,
     ret |-> None, raised |-> FALSE, kind |-> "init", time |-> 0]

NeverSet == [val |-> None, time |-> 0 - 1]

\* the reference recency order: k becomes the most recently accessed key
Touch(order, k) == Append(Without(order, {k}), k)

FpIdle == [r1 |-> NoReq, r2 |-> NoReq, k1 |-> NoKey, k2 |-> NoKey]

\* no QueryAnalyzer has been constructed and no template call is under way
NoFile == <<"absent">>
NoCase == [op |-> "idle"]
\* nothing has been logged and no caller is inside _update_metadata
NoLog ==
    /\ query_log = <<>>
    /\ query_patterns = Empty
    /\ callers = <<>>
NoAnalyzer ==
    /\ templates = <<>>
    /\ template_file = NoFile
    /\ tcase = NoCase
    /\ NoLog

Apply(out) ==
    /\ memory_cache' = out.m.cache
    /\ memory_timestamps' = out.m.ts
    /\ memory_lru' = out.m.lru
    /\ files' = out.files
    /\ db' = out.db
    /\ step' = step + 1
    /\ UNCHANGED <<memory_limit, ttl, now, fp, templateVars, logVars>>

Init ==
    /\ memory_cache = Empty
    /\ memory_timestamps = Empty
    /\ memory_lru = <<>>
    /\ memory_limit \in 0..MaxLimit
    /\ ttl \in 1..MaxTTL
    /\ files = Empty
    /\ db = Empty
    /\ now = 0
    /\ step = 0
    /\ recency = <<>>
    /\ lastSet = [k \in Keys |-> NeverSet]
    /\ last = NoCall
    /\ fp = FpIdle
    /\ NoAnalyzer

Set(r, v) ==
    /\ step < MaxSteps
    /\ LET out == set(r.query, r.config_id, v, r.collection_name, "none")
       IN  /\ Apply(out)
           /\ last' = Call("set", r, v, 0, out)
           /\ recency' = Touch(recency, KeyOf(r))
           /\ lastSet' = [lastSet EXCEPT ![KeyOf(r)] = [val |-> v, time |-> now]]

Get(r) ==
    /\ step < MaxSteps
    /\ LET out == get(r.query, r.config_id, r.collection_name, "none")
       IN  /\ Apply(out)
           /\ last' = Call("get", r, None, 0, out)
           /\ recency' = IF out.kind \in {"memory", "disk"}
                         THEN Touch(recency, KeyOf(r)) ELSE recency
           /\ UNCHANGED lastSet

Clear(older_than) ==
    /\ step < MaxSteps
    /\ LET out == clear(older_than)
       IN  /\ Apply(out)
           /\ last' = Call("clear", NoReq, None, older_than, out)
           /\ UNCHANGED <<recency, lastSet>>

\* time passes between calls
Tick ==
    /\ now < MaxTime
    /\ now' = now + 1
    /\ UNCHANGED <<memory_cache, memory_timestamps, memory_lru, memory_limit, ttl,
                   files, db, step, recency, lastSet, last, fp, templateVars, logVars>>

Next ==
    \/ \E r \in Requests, v \in Values : Set(r, v)
    \/ \E r \in Requests : Get(r)
    \/ \E older_than \in 0..MaxOlder : Clear(older_than)
    \/ Tick

Spec == Init /\ [][Next]_vars

\* the cache between two clears: sets, gets and the passing of time
NextNoClear ==
    \/ \E r \in Requests, v \in Values : Set(r, v)
    \/ \E r \in Requests : Get(r)
    \/ Tick

SpecNoClear == Init /\ [][NextNoClear]_vars

(***************************************************************************)
(* The cache over a failing disk: a call may meet an I/O failure of the    *)
(* payload file or of the index store                                      *)
(***************************************************************************)
FaultRequests == {r \in Requests : r.collection_name = NoScope}
SetFaults == {"none", "open", "dump", "index"}
GetFaults == {"none", "index"}

FaultCall(op, r, val, out, fault) == Call(op, r, val, 0, out) @@ [fault |-> fault]

SetFault(r, v, fault) ==
    /\ step < MaxFaultSteps
    /\ LET out == set(r.query, r.config_id, v, r.collection_name, fault)
       IN  /\ Apply(out)
           /\ last' = FaultCall("set", r, v, out, fault)
           /\ recency' = Touch(recency, KeyOf(r))
           /\ lastSet' = [lastSet EXCEPT ![KeyOf(r)] = [val |-> v, time |-> now]]

GetFault(r, fault) ==
    /\ step < MaxFaultSteps
    /\ LET out == get(r.query, r.config_id, r.collection_name, fault)
       IN  /\ Apply(out)
           /\ last' = FaultCall("get", r, None, out, fault)
           /\ recency' = IF out.kind \in {"memory", "disk"} /\ ~out.raised
                         THEN Touch(recency, KeyOf(r)) ELSE recency
           /\ UNCHANGED lastSet

NextFault ==
    \/ \E r \in FaultRequests, v \in Values, fault \in SetFaults : SetFault(r, v, fault)
    \/ \E r \in FaultRequests, fault \in GetFaults : GetFault(r, fault)
    \/ \E older_than \in 0..MaxOlder : step < MaxFaultSteps /\ Clear(older_than)
    \/ Tick

SpecFault == Init /\ [][NextFault]_vars

\* the cache over a disk whose files work and whose index store may fail
\* during a get
NextIndexFault ==
    \/ Next
    \/ \E r \in Requests : GetFault(r, "index")

SpecIndexFault == Init /\ [][NextIndexFault]_vars

(***************************************************************************)
(* Fingerprinting on its own: _get_hash applied to two requests            *)
(***************************************************************************)
\* spellings of a question: any mix of case, spaces and tabs, fingerprinted
\* next to a lowercase spelling with any number of spaces (every spelling is
\* equal after normalization to one of these), under one configuration id
\* and scope
Spellings == SeqsUpTo({"a", "A", " ", "\t"}, MaxQLen)
PlainSpellings == SeqsUpTo({"a", " "}, MaxQLen)
FpCase(a, b) == [r1 |-> a, r2 |-> b, k1 |-> NoKey, k2 |-> NoKey]

\* requests whose components may contain the separator
SepRequests ==
    { Req(q, c, s) : q \in SeqsUpTo({"a", "|"}, MaxSepQ),
                     c \in SeqsUpTo({"a", "|"}, MaxSepC),
                     s \in {NoScope} \cup {Some(x) : x \in SeqsUpTo({"a", "|"}, MaxSepS)} }
UnscopedSepRequests == {r \in SepRequests : r.collection_name = NoScope}

InitHash ==
    /\ memory_cache = Empty
    /\ memory_timestamps = Empty
    /\ memory_lru = <<>>
    /\ memory_limit = 0
    /\ ttl = 1
    /\ files = Empty
    /\ db = Empty
    /\ now = 0
    /\ step = 0
    /\ recency = <<>>
    /\ lastSet = [k \in Keys |-> NeverSet]
    /\ last = NoCall
    /\ NoAnalyzer
    /\ \/ \E q1 \in Spellings, q2 \in PlainSpellings, s \in {NoScope, Some(<<"t">>)} :
                fp = FpCase(Req(q1, <<"x">>, s), Req(q2, <<"x">>, s))
       \/ \E a \in SepRequests, b \in UnscopedSepRequests :
                fp = FpCase(a, b)

Fingerprint ==
    /\ fp.k1 = NoKey
    /\ fp' = [fp EXCEPT !.k1 = KeyOf(fp.r1), !.k2 = KeyOf(fp.r2)]
    /\ UNCHANGED <<cacheVars, templateVars, logVars>>

NextHash == Fingerprint

SpecHash == InitHash /\ [][NextHash]_vars

(***************************************************************************)
(* QueryTemplate                                                           *)
(***************************************************************************)
\* the regex classes \d, \w and [^,.\s], over the characters used here
IsDigit(ch) == ch \in {"0", "1", "2", "3", "4", "5", "6", "7", "8", "9"}
NonWord == {",", ".", "$", "'", "*", "(", ")", "=", "%", "-", "{", "}", "|", "?"}
IsWord(ch) == ~IsSpace(ch) /\ ch \notin NonWord
IsValueChar(ch) == ~IsSpace(ch) /\ ch \notin {",", "."}

\* str.replace(old, new) with a non-empty old: leftmost occurrences, not
\* overlapping, the text put in not being searched again
\* the scan of positions lo..hi-1 entered at position at: the text put out
\* and the position the scan goes on from; the stretch is halved so that long
\* texts need no deep recursion
RECURSIVE replace_in(_, _, _, _, _, _)
replace_in(s, old, new, lo, hi, at) ==
    IF at >= hi THEN [out |-> <<>>, at |-> at]
    ELSE IF hi - lo = 1
    THEN IF at + Len(old) - 1 <= Len(s) /\ SubSeq(s, at, at + Len(old) - 1) = old
         THEN [out |-> new, at |-> at + Len(old)]
         ELSE [out |-> <<s[at]>>, at |-> at + 1]
    ELSE LET mid == (lo + hi) \div 2
             left == replace_in(s, old, new, lo, mid, at)
             right == replace_in(s, old, new, mid, hi, left.at)
         IN  [out |-> left.out \o right.out, at |-> right.at]

Replace(s, old, new) == replace_in(s, old, new, 1, Len(s) + 1, 1).out

\* the placeholders of a pattern
TablePh  == <<"{", "t", "a", "b", "l", "e", "}">>
FieldPh  == <<"{", "f", "i", "e", "l", "d", "}">>
ValuePh  == <<"{", "v", "a", "l", "u", "e", "}">>
NumberPh == <<"{", "n", "u", "m", "b", "e", "r", "}">>

\* a compiled pattern is a sequence of regex items: a capturing group, an
\* anchor, or a character that stands for itself
GroupWord   == "(\\w+)"
GroupValue  == "([^,.\\s]+)"
GroupNumber == "(\\d+)"
Groups == {GroupWord, GroupValue, GroupNumber}

InClass(group, ch) ==
    CASE group = GroupWord   -> IsWord(ch)
      [] group = GroupValue  -> IsValueChar(ch)
      [] group = GroupNumber -> IsDigit(ch)
      [] group = "\\s+"      -> IsSpace(ch)

\* QueryTemplate._compile_pattern
_compile_pattern(pattern) ==
    LET r1 == Replace(pattern, TablePh, <<GroupWord>>)
        r2 == Replace(r1, FieldPh, <<GroupWord>>)
        r3 == Replace(r2, ValuePh, <<GroupValue>>)
        r4 == Replace(r3, NumberPh, <<GroupNumber>>)
    IN  <<"^">> \o r4 \o <<"$">>

\* length of the longest prefix of s made of characters of the class
RECURSIVE Run(_, _)
Run(group, s) ==
    IF s # <<>> /\ InClass(group, Head(s)) THEN 1 + Run(group, Tail(s)) ELSE 0

\* the items of a regex that follow the end ")?" of its first optional group
RECURSIVE AfterOptional(_)
AfterOptional(regex) ==
    IF regex = <<>> THEN <<>>
    ELSE IF Head(regex) = ")?" THEN Tail(regex) ELSE AfterOptional(Tail(regex))

\* re.Pattern.match under re.IGNORECASE: <<>> when the regex does not match
\* at the start of s, else <<groups>>.  A group is greedy and gives back one
\* character at a time; "$" matches at the end of s and before a newline
\* that ends s.  The generalization regexes (lines 468-474) add the items
\* "\\s+", the class "[aá]" and the optional group "(?:" ... ")?", which is
\* tried first with its content and then without.
RECURSIVE re_match(_, _), re_group(_, _, _, _), re_spaces(_, _, _)
re_match(regex, s) ==
    IF regex = <<>> THEN << <<>> >>
    ELSE LET item == Head(regex)
             rest == Tail(regex)
         IN  CASE item = "^" -> re_match(rest, s)
               [] item = "$" -> IF s = <<>> \/ s = <<"\n">>
                                THEN re_match(rest, s) ELSE <<>>
               [] item \in Groups -> re_group(item, rest, s, Run(item, s))
               [] item = "\\s+" -> re_spaces(rest, s, Run(item, s))
               [] item = "[aá]" -> IF s # <<>> /\ Head(s) \in {"a", "á"}
                                   THEN re_match(rest, Tail(s)) ELSE <<>>
               [] item = "(?:" -> LET m == re_match(rest, s)
                                  IN  IF m # <<>> THEN m
                                      ELSE re_match(AfterOptional(rest), s)
               [] item = ")?" -> re_match(rest, s)
               [] OTHER -> IF s # <<>> /\ LowerChar(Head(s)) = LowerChar(item)
                           THEN re_match(rest, Tail(s)) ELSE <<>>
re_group(group, rest, s, n) ==
    IF n = 0 THEN <<>>
    ELSE LET m == re_match(rest, SubSeq(s, n + 1, Len(s)))
         IN  IF m # <<>>
             THEN << <<SubSeq(s, 1, n)>> \o m[1] >>
             ELSE re_group(group, rest, s, n - 1)
re_spaces(rest, s, n) ==
    IF n = 0 THEN <<>>
    ELSE LET m == re_match(rest, SubSeq(s, n + 1, Len(s)))
         IN  IF m # <<>> THEN m ELSE re_spaces(rest, s, n - 1)

\* re.search: the match at the leftmost position of s where the regex matches
RECURSIVE re_search(_, _)
re_search(regex, s) ==
    LET m == re_match(regex, s)
    IN  IF m # <<>> THEN m
        ELSE IF s = <<>> THEN <<>>
        ELSE re_search(regex, Tail(s))

\* generator_func: no function, or the function of the built-in MongoDB template
NoFunc == "None"
NoShape == <<>>

\* QueryTemplate.__init__
QueryTemplate(pattern, description, sql_template, generator_func, db_type, applicable_tables) ==
    [pattern |-> pattern, description |-> description,
     sql_template |-> sql_template, generator_func |-> generator_func,
     db_type |-> db_type, applicable_tables |-> applicable_tables,
     regex |-> _compile_pattern(pattern)]

\* a match that hands out the captured text in lower case
matches_Lowered(template, query) ==
    LET match == re_match(template.regex, query)
    IN  IF match # <<>>
        THEN [matched |-> TRUE, params |-> [i \in 1..Len(match[1]) |-> Lower(match[1][i])]]
        ELSE [matched |-> FALSE, params |-> <<>>]

\* QueryTemplate.matches
matches(template, query) ==
    LET match == re_match(template.regex, query)
    IN  IF match # <<>>
        THEN [matched |-> TRUE, params |-> match[1]]
        ELSE [matched |-> FALSE, params |-> <<>>]

\* str(n) for n >= 0
Digit(d) == <<"0", "1", "2", "3", "4", "5", "6", "7", "8", "9">>[d + 1]
RECURSIVE Numeral(_)
Numeral(n) == IF n < 10 THEN <<Digit(n)>> ELSE Numeral(n \div 10) \o <<Digit(n % 10)>>

\* generate_query, lines 427-429: the loop over enumerate(params) from index i
RECURSIVE Substitute(_, _, _)
Substitute(sql_query, params, i) ==
    IF i > Len(params) THEN sql_query
    ELSE Substitute(Replace(sql_query, <<"$">> \o Numeral(i), params[i]), params, i + 1)

\* the lambda of the built-in MongoDB template (lines 641-646); params[0]
\* raises IndexError on an empty list
MongoFind == "mongo_find"
CallGenerator(generator_func, params, db_schema) ==
    IF params = <<>>
    THEN [raised |-> TRUE, query |-> <<>>]
    ELSE [raised |-> FALSE,
          query |-> <<[collection |-> params[1], operation |-> "find", limit |-> 100]>>]

\* QueryTemplate.generate_query: query is <<>> for None, else <<the dict>>
generate_query(template, params, db_schema) ==
    IF template.generator_func # NoFunc
    THEN CallGenerator(template.generator_func, params, db_schema)
    ELSE IF template.sql_template = NoShape \/ template.sql_template[1] = <<>>
    THEN [raised |-> FALSE, query |-> <<>>]
    ELSE LET sql_query == Substitute(template.sql_template[1], params, 1)
         IN  IF InSeq("$", sql_query)
             THEN [raised |-> FALSE, query |-> <<>>]
             ELSE [raised |-> FALSE, query |-> <<[sql |-> sql_query]>>]

(***************************************************************************)
(* QueryTemplate on its own: matches and generate_query applied to one     *)
(* template                                                                *)
(***************************************************************************)
\* a pattern is a run of pieces: a letter, a space or a placeholder
Placeholders == {TablePh, FieldPh, ValuePh, NumberPh}
PatternPieces == {<<"a">>, <<" ">>} \cup Placeholders
QuestionChars == {"a", "A", "1", " ", ",", "\n"}
ShapeChars == {"$", "0", "1", "2", "x"}
ParamValues == {<<"u">>, <<"$", "2">>}

RECURSIVE Flatten(_)
Flatten(pieces) ==
    IF pieces = <<>> THEN <<>> ELSE Head(pieces) \o Flatten(Tail(pieces))

NoMatch == [matched |-> FALSE, params |-> <<>>]
NoQuery == [raised |-> FALSE, query |-> <<>>]

MatchCase(pieces, question) ==
    [op |-> "matches", done |-> FALSE, pieces |-> pieces,
     template |-> QueryTemplate(Flatten(pieces), "d", NoShape, NoFunc, "sql", <<>>),
     question |-> question, ret |-> NoMatch]

GenerateCase(sql_template, generator_func, params) ==
    [op |-> "generate_query", done |-> FALSE,
     template |-> QueryTemplate(<<"a">>, "d", sql_template, generator_func, "sql", <<>>),
     params |-> params, ret |-> NoQuery]

\* no QueryCache call is made in a template run
NoCache ==
    /\ memory_cache = Empty
    /\ memory_timestamps = Empty
    /\ memory_lru = <<>>
    /\ memory_limit = 0
    /\ ttl = 1
    /\ files = Empty
    /\ db = Empty
    /\ now = 0
    /\ step = 0
    /\ recency = <<>>
    /\ lastSet = [k \in Keys |-> NeverSet]
    /\ last = NoCall
    /\ fp = FpIdle

InitTemplate ==
    /\ NoCache
    /\ NoLog
    /\ templates = <<>>
    /\ template_file = NoFile
    /\ \/ \E pieces \in SeqsUpTo(PatternPieces, MaxPieces),
             question \in SeqsUpTo(QuestionChars, MaxQuestionLen) :
                tcase = MatchCase(pieces, question)
       \/ \E shape \in SeqsUpTo(ShapeChars, MaxShapeLen),
             generator_func \in {NoFunc, MongoFind},
             params \in SeqsUpTo(ParamValues, MaxParams) :
                \/ tcase = GenerateCase(Some(shape), generator_func, params)
                \/ shape = <<>> /\ tcase = GenerateCase(NoShape, generator_func, params)

Matches ==
    /\ tcase.op = "matches"
    /\ ~tcase.done
    /\ tcase' = [tcase EXCEPT !.done = TRUE,
                              !.ret = matches(tcase.template, tcase.question)]
    /\ UNCHANGED <<cacheVars, fp, logVars, templates, template_file>>

GenerateQuery ==
    /\ tcase.op = "generate_query"
    /\ ~tcase.done
    /\ tcase' = [tcase EXCEPT !.done = TRUE,
                              !.ret = generate_query(tcase.template, tcase.params, Empty)]
    /\ UNCHANGED <<cacheVars, fp, logVars, templates, template_file>>

NextTemplate == Matches \/ GenerateQuery

SpecTemplate == InitTemplate /\ [][NextTemplate]_vars

(***************************************************************************)
(* QueryAnalyzer: the template registry and the file of custom templates   *)
(***************************************************************************)
\* QueryAnalyzer._load_default_templates
_load_default_templates ==
    <<
      \* lines 519-524
      QueryTemplate(
          <<"m", "u", "e", "s", "t", "r", "a", " ", "t", "o", "d", "o", "s", " ",
            "l", "o", "s", " ", "{", "t", "a", "b", "l", "e", "}">>,
          "Listar todos los registros de una tabla",
          Some(<<"S", "E", "L", "E", "C", "T", " ", "*", " ", "F", "R", "O", "M", " ",
                   "$", "1", " ", "L", "I", "M", "I", "T", " ", "1", "0", "0">>),
          NoFunc, "sql", <<>>),
      \* lines 529-534
      QueryTemplate(
          <<"c", "u", "á", "n", "t", "o", "s", " ", "{", "t", "a", "b", "l", "e",
            "}", " ", "h", "a", "y">>,
          "Contar registros en una tabla",
          Some(<<"S", "E", "L", "E", "C", "T", " ", "C", "O", "U", "N", "T", "(", "*",
                   ")", " ", "F", "R", "O", "M", " ", "$", "1">>),
          NoFunc, "sql", <<>>),
      \* lines 539-544
      QueryTemplate(
          <<"b", "u", "s", "c", "a", " ", "e", "l", " ", "{", "t", "a", "b", "l",
            "e", "}", " ", "c", "o", "n", " ", "i", "d", " ", "{", "v", "a", "l",
            "u", "e", "}">>,
          "Buscar registro por ID",
          Some(<<"S", "E", "L", "E", "C", "T", " ", "*", " ", "F", "R", "O", "M", " ",
                   "$", "1", " ", "W", "H", "E", "R", "E", " ", "i", "d", " ", "=", " ",
                   "$", "2">>),
          NoFunc, "sql", <<>>),
      \* lines 549-554
      QueryTemplate(
          <<"l", "i", "s", "t", "a", " ", "l", "o", "s", " ", "{", "t", "a", "b",
            "l", "e", "}", " ", "o", "r", "d", "e", "n", "a", "d", "o", "s", " ",
            "p", "o", "r", " ", "{", "f", "i", "e", "l", "d", "}">>,
          "Listar registros ordenados por campo",
          Some(<<"S", "E", "L", "E", "C", "T", " ", "*", " ", "F", "R", "O", "M", " ",
                   "$", "1", " ", "O", "R", "D", "E", "R", " ", "B", "Y", " ", "$", "2",
                   " ", "L", "I", "M", "I", "T", " ", "1", "0", "0">>),
          NoFunc, "sql", <<>>),
      \* lines 559-564
      QueryTemplate(
          <<"b", "u", "s", "c", "a", " ", "e", "l", " ", "u", "s", "u", "a", "r",
            "i", "o", " ", "c", "o", "n", " ", "e", "m", "a", "i", "l", " ", "{",
            "v", "a", "l", "u", "e", "}">>,
          "Buscar usuario por email",
          Some(<<"S", "E", "L", "E", "C", "T", " ", "*", " ", "F", "R", "O", "M", " ",
                   "u", "s", "e", "r", "s", " ", "W", "H", "E", "R", "E", " ", "e", "m",
                   "a", "i", "l", " ", "=", " ", "'", "$", "2", "'">>),
          NoFunc, "sql", <<>>),
      \* lines 569-574
      QueryTemplate(
          <<"c", "u", "á", "n", "t", "o", "s", " ", "{", "t", "a", "b", "l", "e",
            "}", " ", "h", "a", "y", " ", "p", "o", "r", " ", "{", "f", "i", "e",
            "l", "d", "}">>,
          "Contar registros agrupados por campo",
          Some(<<"S", "E", "L", "E", "C", "T", " ", "$", "2", ",", " ", "C", "O", "U",
                   "N", "T", "(", "*", ")", " ", "F", "R", "O", "M", " ", "$", "1", " ",
                   "G", "R", "O", "U", "P", " ", "B", "Y", " ", "$", "2">>),
          NoFunc, "sql", <<>>),
      \* lines 579-585
      QueryTemplate(
          <<"c", "u", "á", "n", "t", "o", "s", " ", "u", "s", "u", "a", "r", "i",
            "o", "s", " ", "a", "c", "t", "i", "v", "o", "s", " ", "h", "a", "y">>,
          "Contar usuarios activos",
          Some(<<"S", "E", "L", "E", "C", "T", " ", "C", "O", "U", "N", "T", "(", "*",
                   ")", " ", "F", "R", "O", "M", " ", "u", "s", "e", "r", "s", " ", "W",
                   "H", "E", "R", "E", " ", "i", "s", "_", "a", "c", "t", "i", "v", "e",
                   " ", "=", " ", "T", "R", "U", "E">>),
          NoFunc, "sql", <<"users">>),
      \* lines 590-601
      QueryTemplate(
          <<"u", "s", "u", "a", "r", "i", "o", "s", " ", "r", "e", "g", "i", "s",
            "t", "r", "a", "d", "o", "s", " ", "e", "n", " ", "l", "o", "s", " ",
            "ú", "l", "t", "i", "m", "o", "s", " ", "{", "n", "u", "m", "b", "e",
            "r", "}", " ", "d", "í", "a", "s">>,
          "Listar usuarios recientes",
          Some(<<"\n", " ", " ", " ", " ", " ", " ", " ", " ", " ", " ", " ", " ", " ",
                   " ", " ", " ", "S", "E", "L", "E", "C", "T", " ", "*", " ", "F", "R",
                   "O", "M", " ", "u", "s", "e", "r", "s", " ", "\n", " ", " ", " ", " ",
                   " ", " ", " ", " ", " ", " ", " ", " ", " ", " ", " ", " ", "W", "H",
                   "E", "R", "E", " ", "c", "r", "e", "a", "t", "e", "d", "_", "a", "t",
                   " ", ">", "=", " ", "d", "a", "t", "e", "t", "i", "m", "e", "(", "'",
                   "n", "o", "w", "'", ",", " ", "'", "-", "$", "2", " ", "d", "a", "y",
                   "s", "'", ")", "\n", " ", " ", " ", " ", " ", " ", " ", " ", " ", " ",
                   " ", " ", " ", " ", " ", " ", "O", "R", "D", "E", "R", " ", "B", "Y",
                   " ", "c", "r", "e", "a", "t", "e", "d", "_", "a", "t", " ", "D", "E",
                   "S", "C", "\n", " ", " ", " ", " ", " ", " ", " ", " ", " ", " ", " ",
                   " ", " ", " ", " ", " ", "L", "I", "M", "I", "T", " ", "1", "0", "0",
                   "\n", " ", " ", " ", " ", " ", " ", " ", " ", " ", " ", " ", " ", " ",
                   " ", " ", " ">>),
          NoFunc, "sql", <<"users">>),
      \* lines 606-617
      QueryTemplate(
          <<"u", "s", "u", "a", "r", "i", "o", "s", " ", "q", "u", "e", " ", "t",
            "i", "e", "n", "e", "n", " ", "e", "m", "p", "r", "e", "s", "a">>,
          "Buscar usuarios con empresa asignada",
          Some(<<"\n", " ", " ", " ", " ", " ", " ", " ", " ", " ", " ", " ", " ", " ",
                   " ", " ", " ", "S", "E", "L", "E", "C", "T", " ", "u", ".", "*", " ",
                   "F", "R", "O", "M", " ", "u", "s", "e", "r", "s", " ", "u", "\n", " ",
                   " ", " ", " ", " ", " ", " ", " ", " ", " ", " ", " ", " ", " ", " ",
                   " ", "I", "N", "N", "E", "R", " ", "J", "O", "I", "N", " ", "b", "u",
                   "s", "i", "n", "e", "s", "s", "e", "s", " ", "b", " ", "O", "N", " ",
                   "u", ".", "i", "d", " ", "=", " ", "b", ".", "o", "w", "n", "e", "r",
                   "_", "i", "d", "\n", " ", " ", " ", " ", " ", " ", " ", " ", " ", " ",
                   " ", " ", " ", " ", " ", " ", "W", "H", "E", "R", "E", " ", "u", ".",
                   "i", "s", "_", "b", "u", "s", "i", "n", "e", "s", "s", " ", "=", " ",
                   "T", "R", "U", "E", "\n", " ", " ", " ", " ", " ", " ", " ", " ", " ",
                   " ", " ", " ", " ", " ", " ", " ", "L", "I", "M", "I", "T", " ", "1",
                   "0", "0", "\n", " ", " ", " ", " ", " ", " ", " ", " ", " ", " ", " ",
                   " ", " ", " ", " ", " ">>),
          NoFunc, "sql", <<"users", "businesses">>),
      \* lines 622-632
      QueryTemplate(
          <<"b", "u", "s", "c", "a", " ", "n", "e", "g", "o", "c", "i", "o", "s",
            " ", "e", "n", " ", "{", "v", "a", "l", "u", "e", "}">>,
          "Buscar negocios por ubicación",
          Some(<<"\n", " ", " ", " ", " ", " ", " ", " ", " ", " ", " ", " ", " ", " ",
                   " ", " ", " ", "S", "E", "L", "E", "C", "T", " ", "*", " ", "F", "R",
                   "O", "M", " ", "b", "u", "s", "i", "n", "e", "s", "s", "e", "s", " ",
                   "\n", " ", " ", " ", " ", " ", " ", " ", " ", " ", " ", " ", " ", " ",
                   " ", " ", " ", "W", "H", "E", "R", "E", " ", "a", "d", "d", "r", "e",
                   "s", "s", "_", "c", "i", "t", "y", " ", "L", "I", "K", "E", " ", "'",
                   "%", "$", "2", "%", "'", " ", "O", "R", " ", "a", "d", "d", "r", "e",
                   "s", "s", "_", "p", "r", "o", "v", "i", "n", "c", "e", " ", "L", "I",
                   "K", "E", " ", "'", "%", "$", "2", "%", "'", "\n", " ", " ", " ", " ",
                   " ", " ", " ", " ", " ", " ", " ", " ", " ", " ", " ", " ", "L", "I",
                   "M", "I", "T", " ", "1", "0", "0", "\n", " ", " ", " ", " ", " ", " ",
                   " ", " ", " ", " ", " ", " ", " ", " ", " ", " ">>),
          NoFunc, "sql", <<"businesses">>),
      \* lines 637-647
      QueryTemplate(
          <<"m", "u", "e", "s", "t", "r", "a", " ", "t", "o", "d", "o", "s", " ",
            "l", "o", "s", " ", "d", "o", "c", "u", "m", "e", "n", "t", "o", "s",
            " ", "d", "e", " ", "{", "t", "a", "b", "l", "e", "}">>,
          "Listar documentos en una colección",
          NoShape,
          MongoFind, "mongodb", <<>>)
    >>

\* json.dump / json.load of the list of descriptors; a file that json.load
\* rejects is Unreadable
Json(list) == <<"json", list>>
Unreadable == <<"unreadable">>

\* save_custom_template, lines 696-702: the descriptor of a template
template_data(template) ==
    [pattern |-> template.pattern, description |-> template.description,
     sql_template |-> template.sql_template, db_type |-> template.db_type,
     applicable_tables |-> template.applicable_tables]

\* _load_custom_templates, lines 663-669: the template of a descriptor
FromData(data) ==
    QueryTemplate(data.pattern, data.description, data.sql_template, NoFunc,
                  data.db_type, data.applicable_tables)

\* re.compile raises re.error on a regex whose parentheses do not pair up
\* (the parentheses of a pattern text are regex syntax: the text is not
\* escaped); depth is the number of parentheses open so far
RECURSIVE re_error(_, _)
re_error(regex, depth) ==
    IF regex = <<>> THEN depth # 0
    ELSE CASE Head(regex) = "(" -> re_error(Tail(regex), depth + 1)
           [] Head(regex) = ")" -> depth = 0 \/ re_error(Tail(regex), depth - 1)
           [] OTHER -> re_error(Tail(regex), depth)

\* _load_custom_templates, lines 657-674: the loop from descriptor i on,
\* inside one try; the exception of a descriptor ends the loop
RECURSIVE load_from(_, _, _)
load_from(tpls, custom_templates, i) ==
    IF i > Len(custom_templates) THEN tpls
    ELSE IF re_error(_compile_pattern(custom_templates[i].pattern), 0) THEN tpls
    ELSE load_from(Append(tpls, FromData(custom_templates[i])), custom_templates, i + 1)

\* QueryAnalyzer._load_custom_templates on registry tpls
_load_custom_templates(tpls, content) ==
    IF content = NoFile \/ content = Unreadable
    THEN tpls
    ELSE load_from(tpls, content[2], 1)

\* QueryAnalyzer.__init__, lines 462-465: the registry of a new analyzer
QueryAnalyzer(content) == _load_custom_templates(_load_default_templates, content)

\* a save that appends to the file whatever it holds
save_custom_template_Append(tpls, content, template, fault) ==
    LET custom_templates == IF content = NoFile \/ content = Unreadable
                            THEN <<>> ELSE content[2]
    IN  CASE fault = "open" -> [templates |-> tpls, file |-> content, ret |-> FALSE]
          [] fault = "dump" -> [templates |-> tpls, file |-> Unreadable, ret |-> FALSE]
          [] OTHER -> [templates |-> Append(tpls, template),
                       file |-> Json(Append(custom_templates, template_data(template))),
                       ret |-> TRUE]

\* QueryAnalyzer.save_custom_template; fault "open": the file cannot be
\* opened for writing, "dump": json.dump raises after open() truncated it
save_custom_template(tpls, content, template, fault) ==
    LET custom_templates == IF content = NoFile \/ content = Unreadable
                            THEN <<>> ELSE content[2]
        same == {i \in 1..Len(custom_templates) :
                    custom_templates[i].pattern = template.pattern}
        first == CHOOSE i \in same : \A j \in same : i <= j
        updated == IF same # {}
                   THEN [custom_templates EXCEPT ![first] = template_data(template)]
                   ELSE Append(custom_templates, template_data(template))
    IN  CASE fault = "open" -> [templates |-> tpls, file |-> content, ret |-> FALSE]
          [] fault = "dump" -> [templates |-> tpls, file |-> Unreadable, ret |-> FALSE]
          [] OTHER -> [templates |-> Append(tpls, template),
                       file |-> Json(updated), ret |-> TRUE]

\* lines 743-744: the tables of the schema; a schema may lack the key
available_tables(db_schema) ==
    IF "tables" \in DOMAIN db_schema THEN db_schema.tables ELSE {}

\* find_matching_template, lines 738-749: the loop from index i on; <<>> is None
RECURSIVE find_from(_, _, _, _)
find_from(tpls, i, query, db_schema) ==
    IF i > Len(tpls) THEN <<>>
    ELSE LET template == tpls[i]
             m == matches(template, query)
         IN  IF m.matched
             THEN IF /\ template.applicable_tables # <<>>
                     /\ ~\E j \in 1..Len(template.applicable_tables) :
                            template.applicable_tables[j] \in available_tables(db_schema)
                  THEN find_from(tpls, i + 1, query, db_schema)
                  ELSE <<[template |-> template, params |-> m.params]>>
             ELSE find_from(tpls, i + 1, query, db_schema)

\* a search that takes every table to be available
find_matching_template_AnyScope(tpls, query, db_schema) ==
    find_from(tpls, 1, query, [tables |-> {"users", "orders", "businesses"}])

\* QueryAnalyzer.find_matching_template
find_matching_template(tpls, query, db_schema) == find_from(tpls, 1, query, db_schema)

(***************************************************************************)
(* The analyzer as a state machine                                         *)
(***************************************************************************)
PatternWord  == <<"a", " ", "{", "t", "a", "b", "l", "e", "}">>
PatternValue == <<"a", " ", "{", "v", "a", "l", "u", "e", "}">>
PatternCount == <<"c", "u", "á", "n", "t", "o", "s", " ", "u", "s", "u", "a", "r", "i", "o", "s", " ", "{", "v", "a", "l", "u", "e", "}", " ", "h", "a", "y">>

\* custom templates that are saved: two with the same pattern, two whose
\* patterns match the same questions, one with a generator function
CustomTemplates ==
    { QueryTemplate(PatternWord, "d1", Some(<<"x", " ", "$", "1">>), NoFunc, "sql", <<"users">>),
      QueryTemplate(PatternWord, "d2", Some(<<"y", " ", "$", "1">>), NoFunc, "sql", <<>>),
      QueryTemplate(PatternValue, "d3", Some(<<"z", " ", "$", "1">>), NoFunc, "sql", <<"orders", "users">>),
      QueryTemplate(PatternValue, "d4", Some(<<"z", " ", "$", "1">>), NoFunc, "sql", <<>>),
      QueryTemplate(PatternCount, "d5", NoShape, MongoFind, "mongodb", <<>>) }

Questions ==
    { <<"a", " ", "b">>,
      <<"a", " ", "-">>,
      <<"c", "u", "á", "n", "t", "o", "s", " ", "u", "s", "u", "a", "r", "i", "o", "s", " ", "a", "c", "t", "i", "v", "o", "s", " ", "h", "a", "y">> }

Schemas ==
    { [tables |-> {"users"}], [tables |-> {"orders"}], [collections |-> {"users"}] }

SaveFaults == {"none", "open", "dump"}

InitAnalyzer ==
    /\ NoCache
    /\ NoLog
    /\ template_file = NoFile
    /\ templates = QueryAnalyzer(NoFile)
    /\ tcase = NoCase

SaveCustomTemplate(template, fault) ==
    /\ Len(templates) < Len(_load_default_templates) + MaxSaves
    /\ LET out == save_custom_template(templates, template_file, template, fault)
       IN  /\ templates' = out.templates
           /\ template_file' = out.file
           /\ tcase' = [op |-> "save", template |-> template, fault |-> fault,
                        ret |-> out.ret]
    /\ UNCHANGED <<cacheVars, fp, logVars>>

FindMatchingTemplate(question, db_schema) ==
    /\ tcase' = [op |-> "find", question |-> question, db_schema |-> db_schema,
                 ret |-> find_matching_template(templates, question, db_schema)]
    /\ UNCHANGED <<cacheVars, fp, logVars, templates, template_file>>

\* the process ends and a new QueryAnalyzer is constructed on the same file
Restart ==
    /\ templates' = QueryAnalyzer(template_file)
    /\ tcase' = [op |-> "construct"]
    /\ UNCHANGED <<cacheVars, fp, logVars, template_file>>

NextAnalyzer ==
    \/ \E template \in CustomTemplates, fault \in SaveFaults :
            SaveCustomTemplate(template, fault)
    \/ \E question \in Questions, db_schema \in Schemas :
            FindMatchingTemplate(question, db_schema)
    \/ Restart

SpecAnalyzer == InitAnalyzer /\ [][NextAnalyzer]_vars

\* the analyzer when every save succeeds
NextSaves ==
    \/ \E template \in CustomTemplates : SaveCustomTemplate(template, "none")
    \/ \E question \in Questions, db_schema \in Schemas :
            FindMatchingTemplate(question, db_schema)
    \/ Restart

SpecSaves == InitAnalyzer /\ [][NextSaves]_vars

(***************************************************************************)
(* An analyzer constructed on a template file written by hand             *)
(***************************************************************************)
MaxFileLen == 3   \* most descriptors in a template file written by hand

\* a descriptor whose pattern does not compile
BadData ==
    [pattern |-> <<"a", " ", "(">>, description |-> "bad",
     sql_template |-> Some(<<"x">>), db_type |-> "sql", applicable_tables |-> <<>>]

Descriptors == {template_data(t) : t \in CustomTemplates} \cup {BadData}

InitLoad ==
    /\ NoCache
    /\ NoLog
    /\ \/ template_file \in {NoFile, Unreadable}
       \/ \E list \in SeqsUpTo(Descriptors, MaxFileLen) : template_file = Json(list)
    /\ templates = QueryAnalyzer(template_file)
    /\ tcase = [op |-> "construct"]

NextLoad ==
    \/ \E question \in Questions, db_schema \in Schemas :
            FindMatchingTemplate(question, db_schema)
    \/ Restart

SpecLoad == InitLoad /\ [][NextLoad]_vars

(***************************************************************************)
(* QueryAnalyzer: pattern detection                                        *)
(***************************************************************************)
\* self.common_patterns, lines 468-474: each regex as its sequence of items
common_patterns ==
    <<
      \* line 469
      <<"m", "u", "e", "s", "t", "r", "a", "\\s+", "(?:", "t", "o", "d", "o", "s", "\\s+", ")?", "l", "o", "s", "\\s+", "(\\w+)">>,
      \* line 470
      <<"l", "i", "s", "t", "a", "\\s+", "(?:", "d", "e", "\\s+", ")?", "(?:", "t", "o", "d", "o", "s", "\\s+", ")?", "l", "o", "s", "\\s+", "(\\w+)">>,
      \* line 471
      <<"b", "u", "s", "c", "a", "\\s+", "(\\w+)", "\\s+", "d", "o", "n", "d", "e">>,
      \* line 472
      <<"c", "u", "[aá]", "n", "t", "o", "s", "\\s+", "(\\w+)", "\\s+", "h", "a", "y">>,
      \* line 473
      <<"t", "o", "t", "a", "l", "\\s+", "d", "e", "\\s+", "(\\w+)">>
    >>

\* str.split(): the maximal runs of characters that are not whitespace
RECURSIVE Split(_)
Split(s) ==
    LET t == LStrip(s)
    IN  IF t = <<>> THEN <<>>
        ELSE LET k == CHOOSE j \in 1..Len(t) :
                          /\ \A i \in 1..j : ~IsSpace(t[i])
                          /\ (j = Len(t) \/ IsSpace(t[j + 1]))
             IN  <<SubSeq(t, 1, k)>> \o Split(SubSeq(t, k + 1, Len(t)))

\* _detect_pattern, lines 822-827: the loop over the regexes from index i on;
\* <<>> is no match, else <<label>>
RECURSIVE detect_from(_, _)
detect_from(normalized, i) ==
    IF i > Len(common_patterns) THEN <<>>
    ELSE LET pattern == common_patterns[i]
             match == re_search(pattern, normalized)
         IN  IF match # <<>>
             THEN LET entity == match[1][1]
                  IN  <<Replace(pattern, <<GroupWord>>, entity)>>
             ELSE detect_from(normalized, i + 1)

\* _detect_pattern, lines 829-841: the generalization of a plain listing
generalize(words) ==
    LET verbs == {<<"m", "o", "s", "t", "r", "a", "r">>, <<"m", "u", "e", "s", "t", "r", "a">>, <<"l", "i", "s", "t", "a", "r">>, <<"l", "i", "s", "t", "a">>}
        articles == {<<"d", "e">>, <<"l", "o", "s">>, <<"l", "a", "s">>, <<"t", "o", "d", "o", "s">>, <<"t", "o", "d", "a", "s">>}
        at == {i \in 1..(Len(words) - 1) : words[i] \in articles}
    IN  IF Len(words) < 3 THEN <<>>
        ELSE IF (\E i \in 1..Len(words) : words[i] \in verbs) /\ at # {}
        THEN LET i == CHOOSE j \in at : \A k \in at : j <= k
             IN  <<<<"l", "i", "s", "t", "a", "_", "d", "e", "_">> \o words[i + 1]>>
        ELSE <<>>

\* a detection that prefers the last regex of the list that matches
_detect_pattern_LastFirst(query) ==
    LET normalized == Lower(query)
        hits == {i \in 1..Len(common_patterns) : re_search(common_patterns[i], normalized) # <<>>}
        last_hit == CHOOSE i \in hits : \A j \in hits : j <= i
    IN  IF hits # {}
        THEN <<Replace(common_patterns[last_hit], <<GroupWord>>,
                       re_search(common_patterns[last_hit], normalized)[1][1])>>
        ELSE generalize(Split(normalized))

\* QueryAnalyzer._detect_pattern: <<>> is None, else <<label>>
_detect_pattern(query) ==
    LET normalized == Lower(query)
        found == detect_from(normalized, 1)
    IN  IF found # <<>> THEN found ELSE generalize(Split(normalized))

(***************************************************************************)
(* Pattern detection on its own                                            *)
(***************************************************************************)
MaxWords == 5   \* most words of a question whose pattern is detected

RECURSIVE Join(_)
Join(words) ==
    IF words = <<>> THEN <<>>
    ELSE IF Len(words) = 1 THEN words[1]
    ELSE words[1] \o <<" ">> \o Join(Tail(words))

InitDetect ==
    /\ NoCache
    /\ NoLog
    /\ template_file = NoFile
    /\ templates = QueryAnalyzer(NoFile)
    \* questions: words of the regexes and of the generalization, one space
    \* between two words; an empty word makes a run of spaces
    /\ \E words \in SeqsUpTo({<<>>, <<"m", "u", "e", "s", "t", "r", "A">>, <<"t", "o", "d", "o", "s">>, <<"l", "o", "s">>, <<"t", "o", "t", "a", "l">>, <<"d", "e">>, <<"x">>}, MaxWords) :
           tcase = [op |-> "detect", done |-> FALSE, question |-> Join(words), ret |-> <<>>]

DetectPattern ==
    /\ tcase.op = "detect"
    /\ ~tcase.done
    /\ tcase' = [tcase EXCEPT !.done = TRUE, !.ret = _detect_pattern(tcase.question)]
    /\ UNCHANGED <<cacheVars, fp, logVars, templates, template_file>>

SpecDetect == InitDetect /\ [][DetectPattern]_vars

(***************************************************************************)
(* QueryAnalyzer: the query log, the pattern statistics, the suggestions   *)
(*                                                                         *)
(* The clock and the timestamps count hours; a cost counts hundredths.     *)
(* An average is an exact fraction [n, d] in lowest terms.                 *)
(***************************************************************************)
RECURSIVE Gcd(_, _)
Gcd(a, b) == IF b = 0 THEN a ELSE Gcd(b, a % b)

\* the quotient n / d of lines 791-792 and 959-960, for n >= 0 and d > 0
Ratio(n, d) == [n |-> n \div Gcd(n, d), d |-> d \div Gcd(n, d)]

\* a log_query that counts the occurrence but keeps the old averages
log_query_KeepAverage(log, patterns, query, execution_time, cost, t) ==
    LET pattern == _detect_pattern(query)
        record == [query |-> query, timestamp |-> t, execution_time |-> execution_time,
                   cost |-> cost, pattern |-> pattern]
        row == patterns[pattern[1]]
    IN  [log |-> Append(log, record),
         patterns |->
            IF pattern = <<>> THEN patterns
            ELSE IF pattern[1] \in DOMAIN patterns
            THEN Put(patterns, pattern[1], [row EXCEPT !.count = row.count + 1])
            ELSE Put(patterns, pattern[1],
                     [count |-> 1, avg_execution_time |-> Ratio(execution_time, 1),
                      avg_cost |-> Ratio(cost, 1)])]

\* a log_query that keeps one record for a question: the newest
log_query_Newest(log, patterns, query, execution_time, cost, t) ==
    [log |-> Append(SelectSeq(log, LAMBDA r : r.query # query),
                    [query |-> query, timestamp |-> t, execution_time |-> execution_time,
                     cost |-> cost, pattern |-> _detect_pattern(query)]),
     patterns |-> patterns]

\* QueryAnalyzer.log_query at clock t, on the two tables
log_query(log, patterns, query, execution_time, cost, t) ==
    LET pattern == _detect_pattern(query)
        record == [query |-> query, timestamp |-> t, execution_time |-> execution_time,
                   cost |-> cost, pattern |-> pattern]
        row == patterns[pattern[1]]
        new_count == row.count + 1
        new_avg_exec_time ==
            Ratio(row.avg_execution_time.n * row.count + execution_time * row.avg_execution_time.d,
                  row.avg_execution_time.d * new_count)
        new_avg_cost ==
            Ratio(row.avg_cost.n * row.count + cost * row.avg_cost.d,
                  row.avg_cost.d * new_count)
    IN  [log |-> Append(log, record),
         patterns |->
            IF pattern = <<>> THEN patterns
            ELSE IF pattern[1] \in DOMAIN patterns
            THEN Put(patterns, pattern[1],
                     [count |-> new_count, avg_execution_time |-> new_avg_exec_time,
                      avg_cost |-> new_avg_cost])
            ELSE Put(patterns, pattern[1],
                     [count |-> 1, avg_execution_time |-> Ratio(execution_time, 1),
                      avg_cost |-> Ratio(cost, 1)])]

\* WHERE timestamp > datetime('now', '-N day'): the timestamp is the text of
\* datetime.now().isoformat(), "date T time", the bound is the text
\* "date time" of SQLite; the texts are compared as texts, and "T" sorts
\* after " ", so a timestamp of the bound's date is above the bound
\* whatever its time
Since(timestamp, t, days) == (timestamp \div 24) >= ((t - 24 * days) \div 24)

\* ORDER BY count DESC LIMIT limit: the row sets SQLite may return; the
\* order of rows of equal count is not specified
TopRows(rows, limit) ==
    {top \in SUBSET rows :
        /\ Cardinality(top) = IF Cardinality(rows) < limit THEN Cardinality(rows) ELSE limit
        /\ \A r \in top, q \in rows \ top : r.count >= q.count}

\* QueryAnalyzer.get_common_patterns: the results it may return, read from
\* the rows of table query_patterns
get_common_patterns(patterns, limit) ==
    LET rows == {[pattern |-> p, count |-> patterns[p].count,
                  avg_execution_time |-> patterns[p].avg_execution_time,
                  avg_cost |-> patterns[p].avg_cost] : p \in DOMAIN patterns}
    IN  TopRows(rows, limit)

\* round(x, 2) of a non-negative amount n / d of hundredths: the nearest
\* whole number of hundredths; of two equally near ones Python takes the one
\* nearer to the binary value of x, here the even one (no amount of the
\* workloads below lies halfway)
Round2(n, d) ==
    LET q == n \div d
        r == n % d
    IN  IF 2 * r > d \/ (2 * r = d /\ q % 2 = 1) THEN q + 1 ELSE q

\* lines 959-960: max(3600, min(86400 * 3, 86400 * (100 / (query_count / 30))))
suggested_ttl(query_count) ==
    LET x == Ratio(86400 * 100 * 30, query_count)
    IN  IF x.n > 86400 * 3 * x.d THEN Ratio(86400 * 3, 1)
        ELSE IF x.n < 3600 * x.d THEN Ratio(3600, 1)
        ELSE x

\* QueryAnalyzer.get_optimization_suggestions at clock t: the results it may
\* return, the suggestions grouped by type
get_optimization_suggestions(log, patterns, t) ==
    LET \* lines 939-943: the records of the last 30 days
        query_count == Cardinality({i \in 1..Len(log) : Since(log[i].timestamp, t, 30)})
        \* lines 992-999: the hour buckets of the records of the last 7 days
        week == {i \in 1..Len(log) : Since(log[i].timestamp, t, 7)}
        hour_rows ==
            {[hour |-> h, count |-> Cardinality({i \in week : log[i].timestamp = h})] :
                h \in {log[i].timestamp : i \in week}}
        \* lines 1013-1021: the questions asked more than 3 times in the last day
        day == {i \in 1..Len(log) : Since(log[i].timestamp, t, 1)}
        query_rows ==
            {r \in {[query |-> q, count |-> Cardinality({i \in day : log[i].query = q})] :
                        q \in {log[i].query : i \in day}} : r.count > 3}
        \* the suggestions built from the rows that the SELECTs returned
        suggestions(common, hours, repeated) ==
            [volume_plan |->
                IF query_count > 100 THEN {[query_count |-> query_count]} ELSE {},
             cache_adjustment |->
                IF query_count > 100
                THEN {[suggested_ttl |-> suggested_ttl(query_count)]} ELSE {},
             precompile |->
                {[pattern |-> r.pattern, count |-> r.count,
                  estimated_savings |->
                      Round2(r.avg_cost.n * r.count * 9, r.avg_cost.d * 10)] :
                    r \in {x \in common : x.count >= 5}},
             analyze |->
                {[pattern |-> r.pattern, avg_cost |-> r.avg_cost] :
                    r \in {x \in common : x.avg_cost.n > 10 * x.avg_cost.d /\ x.count < 5}},
             load_balancing |->
                {[hour |-> r.hour, query_count |-> r.count] :
                    r \in {x \in hours : x.count > 20}},
             redundant |->
                {[query |-> r.query, count |-> r.count,
                  estimated_savings |-> 9 * (r.count - 1)] : r \in repeated}]
    IN  {suggestions(common, hours, repeated) :
            common \in get_common_patterns(patterns, 10),
            hours \in TopRows(hour_rows, 5),
            repeated \in TopRows(query_rows, 5)}

(***************************************************************************)
(* The analyzer's log as a state machine: an analyzer that has logged a    *)
(* workload, then logs more, reads its statistics and serves templates     *)
(***************************************************************************)
MaxLog == 3          \* records logged one at a time
MaxPatterns == 11    \* most patterns of a workload
MaxBuckets == 6      \* most busy hours of a workload
MaxBucketSize == 21  \* most records of a busy hour
MaxVolume == 101     \* most records of the hour that is 30 days and 1 hour old

\* the log and the statistics after log_query is called as calls lo..hi
\* say, one call after the other, starting from the given tables; the calls
\* are taken by halves to keep the evaluation shallow, and the test on the
\* first half makes TLC evaluate it before the second
RECURSIVE Replay(_, _, _, _)
Replay(calls, lo, hi, tables) ==
    IF lo > hi THEN tables
    ELSE IF lo = hi
    THEN log_query(tables.log, tables.patterns, calls[lo].query,
                   calls[lo].execution_time, calls[lo].cost, calls[lo].t)
    ELSE LET mid == (lo + hi) \div 2
             first == Replay(calls, lo, mid, tables)
         IN  IF Len(first.log) > 0 THEN Replay(calls, mid + 1, hi, first) ELSE first

InitLog ==
    /\ memory_cache = Empty
    /\ memory_timestamps = Empty
    /\ memory_lru = <<>>
    /\ memory_limit = 0
    /\ ttl = 1
    /\ files = Empty
    /\ db = Empty
    /\ now = 24 * 100 + 10
    /\ recency = <<>>
    /\ lastSet = [k \in Keys |-> NeverSet]
    /\ last = NoCall
    /\ fp = FpIdle
    /\ callers = <<>>
    /\ template_file = NoFile
    /\ templates = QueryAnalyzer(NoFile)
    /\ tcase = NoCase
    /\ LET question(p) == <<"m", "u", "e", "s", "t", "r", "A", " ", "d", "e", " ">> \o Numeral(p)
           call(query, cost, t) ==
               [query |-> query, execution_time |-> 1, cost |-> cost, t |-> t]
           \* workload of patterns: frequent patterns, each asked 5 times at
           \* cost 0.20, then rare ones, each asked once at cost 0.20, all
           \* 60 days ago
           PatternWorkload(frequent, rare) ==
               [i \in 1..(5 * frequent + rare) |->
                   call(question(IF i <= 5 * frequent THEN ((i - 1) \div 5) + 1
                                 ELSE i - 4 * frequent),
                        20, now - 24 * 60)]
           \* workload of volume: records 30 days and 1 hour old, then busy
           \* hours one day apart, the latest one hour ago
           VolumeWorkload(buckets, size, old) ==
               [i \in 1..(old + buckets * size) |->
                   IF i <= old THEN call(<<"x">>, 9, now - 24 * 30 - 1)
                   ELSE call(<<"x">>, 9, now - 24 * ((i - old - 1) \div size) - 1)]
       IN  \E calls \in
            {PatternWorkload(frequent, rare) :
                frequent \in 0..MaxPatterns, rare \in 0..1} \cup
            {VolumeWorkload(buckets, size, old) :
                buckets \in 0..MaxBuckets, size \in {MaxBucketSize - 1, MaxBucketSize},
                old \in {0, MaxVolume}} :
           LET tables == Replay(calls, 1, Len(calls), [log |-> <<>>, patterns |-> Empty])
           IN  /\ query_log = tables.log
               /\ query_patterns = tables.patterns
               /\ step = Len(calls)

\* step counts the log_query calls completed
LogQuery(query, execution_time, cost) ==
    /\ Len(query_log) < MaxLog
    /\ LET tables == log_query(query_log, query_patterns, query, execution_time, cost, now)
       IN  /\ query_log' = tables.log
           /\ query_patterns' = tables.patterns
    /\ step' = step + 1
    /\ tcase' = [op |-> "log_query"]
    /\ UNCHANGED <<memory_cache, memory_timestamps, memory_lru, memory_limit, ttl, files,
                   db, now, recency, lastSet, last, fp, callers, templates, template_file>>

GetCommonPatterns(limit) ==
    /\ \E ret \in get_common_patterns(query_patterns, limit) :
           tcase' = [op |-> "get_common_patterns", ret |-> ret]
    /\ UNCHANGED <<cacheVars, fp, logVars, templates, template_file>>

GetOptimizationSuggestions ==
    /\ \E ret \in get_optimization_suggestions(query_log, query_patterns, now) :
           tcase' = [op |-> "get_optimization_suggestions", ret |-> ret]
    /\ UNCHANGED <<cacheVars, fp, logVars, templates, template_file>>

NextLog ==
    \/ \E query \in {<<"t", "o", "t", "a", "l", " ", "d", "e", " ", "x">>, <<"m", "u", "e", "s", "t", "r", "A", " ", "l", "o", "s", " ", "x">>, <<"x">>},
          execution_time \in 1..3, cost \in {9, 20} :
            LogQuery(query, execution_time, cost)
    \/ GetCommonPatterns(10)
    \/ GetOptimizationSuggestions
    \/ \E template \in {c \in CustomTemplates : c.description = "d2"} :
            Len(templates) = Len(_load_default_templates) /\ SaveCustomTemplate(template, "none")
    \/ FindMatchingTemplate(<<"a", " ", "b">>, [tables |-> {"users"}])

SpecLog == InitLog /\ [][NextLog]_vars

(***************************************************************************)
(* The template fast path beside a cache in use: a question is looked up   *)
(* in the registry and its query generated                                 *)
(***************************************************************************)
MaxWordLen == 2   \* longest table name asked for
MaxWarm == 1      \* results cached beside the fast path

\* one-word table names
TableNames == SeqsUpTo({"a", "B", "1", "_"}, MaxWordLen) \ {<<>>}

InitFastPath ==
    /\ memory_cache = Empty
    /\ memory_timestamps = Empty
    /\ memory_lru = <<>>
    /\ memory_limit = 1
    /\ ttl = 1
    /\ files = Empty
    /\ db = Empty
    /\ now = 0
    /\ step = 0
    /\ recency = <<>>
    /\ lastSet = [k \in Keys |-> NeverSet]
    /\ last = NoCall
    /\ fp = FpIdle
    /\ NoLog
    /\ template_file = NoFile
    /\ templates = QueryAnalyzer(NoFile)
    /\ tcase = NoCase

\* find_matching_template, then generate_query on what it returned
FastPath(table, db_schema) ==
    LET ShowAll == <<"m", "u", "e", "s", "t", "r", "a", " ", "t", "o", "d", "o", "s", " ", "l", "o", "s", " ">>
        found == find_matching_template(templates, ShowAll \o table, db_schema)
    IN  /\ tcase' = [op |-> "fast", table |-> table, found |-> found,
                     query |-> IF found = <<>> THEN NoQuery
                               ELSE generate_query(found[1].template, found[1].params, db_schema)]
        /\ UNCHANGED <<cacheVars, fp, logVars, templates, template_file>>

NextFastPath ==
    \/ \E table \in TableNames, db_schema \in Schemas : FastPath(table, db_schema)
    \/ \E r \in Requests, v \in Values : step < MaxWarm /\ Set(r, v)

SpecFastPath == InitFastPath /\ [][NextFastPath]_vars

(***************************************************************************)
(* Every built-in template used on questions of its own pattern            *)
(***************************************************************************)
\* the pattern with {table} spelled as word1 and any other placeholder as word2
Spell(pattern, word1, word2) ==
    Replace(Replace(Replace(Replace(pattern, TablePh, word1),
                            FieldPh, word2), ValuePh, word2), NumberPh, word2)

InitBuiltin ==
    /\ NoCache
    /\ NoLog
    /\ template_file = NoFile
    /\ templates = QueryAnalyzer(NoFile)
    /\ \E i \in 1..Len(_load_default_templates), word1 \in TableNames, word2 \in TableNames :
          tcase = [op |-> "use", done |-> FALSE, template |-> _load_default_templates[i],
                   question |-> Spell(_load_default_templates[i].pattern, word1, word2),
                   ret |-> NoMatch, query |-> NoQuery]

\* matches, then generate_query with what it captured
UseTemplate ==
    /\ tcase.op = "use"
    /\ ~tcase.done
    /\ LET m == matches(tcase.template, tcase.question)
       IN  tcase' = [tcase EXCEPT
                       !.done = TRUE,
                       !.ret = m,
                       !.query = IF m.matched
                                 THEN generate_query(tcase.template, m.params, Empty)
                                 ELSE NoQuery]
    /\ UNCHANGED <<cacheVars, fp, logVars, templates, template_file>>

SpecBuiltin == InitBuiltin /\ [][UseTemplate]_vars

(***************************************************************************)
(* Properties of the cache                                                 *)
(***************************************************************************)
\* the last call was a get of key k
GotKey(k) == last.op = "get" /\ last.key = k
WasSet(k) == lastSet[k].time >= 0
\* a call of operation op is being completed
Completes(op) == step' = step + 1 /\ last'.op = op

\* C1: set(q, c, v, s) followed immediately (no time elapsed, no call in
\* between) by get(q, c, s) returns v, for every memory capacity >= 0 and
\* every TTL > 0.
RoundTrip ==
    [][ (last.op = "set" /\ last.time = now /\ Completes("get") /\ last'.req = last.req)
            => (~last'.raised /\ last'.ret = last.val) ]_vars

\* C1 witness: with memory capacity 0, a set and at once a get of the same
\* request, which brings the value back from the payload file
RoundTripSeen ==
    /\ step = 2
    /\ last.op = "get"
    /\ lastSet[last.key].time = last.time
    /\ db[last.key].hit_count = 2
    /\ memory_limit = 0
    /\ last.kind = "disk"
    /\ last.ret = lastSet[last.key].val

\* C2: a get of a key whose entry was set at least ttl earlier misses, and
\* afterwards neither the payload file nor the index row of the key exists.
ExpiryPurge ==
    \A k \in Keys :
        (GotKey(k) /\ WasSet(k) /\ (last.time - lastSet[k].time) >= ttl)
            => (last.ret = None /\ k \notin DOMAIN files /\ k \notin DOMAIN db)

\* C3: after any sequence of completed set, get and clear calls a key has an
\* index row if and only if its payload file exists.
NoOrphan == DOMAIN db = DOMAIN files

\* position of key k in the reference recency order
Rank(k) == CHOOSE i \in 1..Len(recency) : recency[i] = k
\* the key of S whose latest access is the oldest
Oldest(S) == CHOOSE k \in S : \A other \in S : Rank(k) <= Rank(other)

\* the keys other than the one called that leave the memory tier in this step
Evicted == ((DOMAIN memory_cache) \ {last'.key}) \ DOMAIN memory_cache'
\* the call inserts its key into a tier already holding memory_limit other keys
Overflows ==
    /\ last'.kind \in {"set", "disk"}
    /\ Cardinality((DOMAIN memory_cache) \ {last'.key}) >= memory_limit

\* C4: with capacity N >= 1, a set or promotion that makes the memory tier
\* exceed N keys evicts exactly one key, the one whose latest access (set,
\* memory hit or promotion) is the oldest; no other set or get evicts a key.
StrictLRU ==
    [][ (memory_limit >= 1 /\ (Completes("set") \/ Completes("get")))
            => IF Overflows
               THEN /\ Evicted = {Oldest((DOMAIN memory_cache) \ {last'.key})}
                    /\ last'.key \in DOMAIN memory_cache'
               ELSE Evicted = {} ]_vars

\* C4 witness: capacity 2, three keys set; the key set first was read
\* afterwards and survives, the key set after it but never read is evicted
ProtectedKeySurvives ==
    /\ memory_limit = 2
    /\ step = 4
    /\ last.op = "set"
    /\ Len(recency) = 3
    /\ recency[3] = last.key
    /\ recency[1] \notin DOMAIN memory_cache
    /\ DOMAIN memory_cache = {recency[2], recency[3]}
    /\ lastSet[recency[2]].time < lastSet[recency[1]].time
    /\ db[recency[2]].hit_count = 2
    /\ db[recency[2]].last_accessed >= lastSet[recency[1]].time

\* C5: after every completed call the keys of memory_cache, the keys of
\* memory_timestamps and the elements of memory_lru are the same set,
\* memory_lru has no duplicates and holds at most memory_limit keys.
MemoryTierShape ==
    /\ DOMAIN memory_cache = DOMAIN memory_timestamps
    /\ DOMAIN memory_cache = Elems(memory_lru)
    /\ Len(memory_lru) = Cardinality(Elems(memory_lru))
    /\ Cardinality(DOMAIN memory_cache) <= memory_limit

\* C5 witness: a promotion into a full tier of two keys
FullTierSeen ==
    /\ last.kind = "disk"
    /\ memory_limit = 2
    /\ Len(memory_lru) = 2
    /\ Len(recency) = 3

\* C6: get never returns a value for a key when ttl or more seconds have
\* passed since the latest set of that key.
AbsoluteExpiry ==
    \A k \in Keys :
        (GotKey(k) /\ WasSet(k) /\ (last.time - lastSet[k].time) >= ttl)
            => last.ret = None

(***************************************************************************)
(* Properties of the fingerprint                                           *)
(***************************************************************************)
Fingerprinted == fp.k1 # NoKey

\* the normalization as the specification words it: trim, collapse every
\* whitespace run to one space, lowercase
TrimCollapseLower(q) == Lower(CollapseWs(Strip(q)))

\* C7: two questions that are equal after trimming, collapsing whitespace
\* runs and lowercasing get the same key under one configuration id and scope.
SameKeyAfterNormalization ==
    ( /\ Fingerprinted
      /\ TrimCollapseLower(fp.r1.query) = TrimCollapseLower(fp.r2.query)
      /\ fp.r1.config_id = fp.r2.config_id
      /\ fp.r1.collection_name = fp.r2.collection_name )
        => fp.k1 = fp.k2

\* C7 witness: spellings that differ in case, in a tab and in the length of
\* an inner whitespace run were given one key
SpellingsMerged ==
    /\ Fingerprinted
    /\ fp.r1.query = <<"A", "\t", " ", "a">>
    /\ fp.r2.query = <<" ", "a", " ", "a">>
    /\ fp.r1.collection_name = fp.r2.collection_name
    /\ fp.k1 = fp.k2

\* C8: the digest input of a request with a scope string differs from the
\* digest input of every request without scope, so their keys differ.  (The
\* scope string is taken non-empty: line 79 reads an empty one as no scope.)
ScopeSeparation ==
    ( /\ Fingerprinted
      /\ fp.r1.collection_name # NoScope
      /\ fp.r1.collection_name # Some(<<>>)
      /\ fp.r2.collection_name = NoScope )
        => /\ hash_input(fp.r1.query, fp.r1.config_id, fp.r1.collection_name)
                # hash_input(fp.r2.query, fp.r2.config_id, fp.r2.collection_name)
           /\ fp.k1 # fp.k2

(***************************************************************************)
(* Properties of get                                                       *)
(***************************************************************************)
IsMRU(k, lru) == lru # <<>> /\ lru[Len(lru)] = k

Returned == last'.kind \in {"memory", "disk"}

\* the index row of the key just read was counted and stamped
RowCounted ==
    LET k == last'.key
    IN  /\ k \in DOMAIN db
        /\ k \in DOMAIN db'
        /\ db'[k].hit_count = db[k].hit_count + 1
        /\ db'[k].last_accessed = now

\* C9 as stated: every get that returns a value moves the key to the
\* most-recently-used position, adds one to the hit_count of its row and sets
\* last_accessed to the current time; a get that misses changes no row.
HitBookkeepingAnyCapacity ==
    [][ Completes("get")
            => IF Returned
               THEN RowCounted /\ IsMRU(last'.key, memory_lru')
               ELSE db' = db ]_vars

\* C9 amended: the same, the most-recently-used position being taken only
\* when the memory capacity is at least 1.
HitBookkeeping ==
    [][ Completes("get")
            => IF Returned
               THEN /\ RowCounted
                    /\ memory_limit >= 1 => IsMRU(last'.key, memory_lru')
               ELSE db' = db ]_vars

\* C9 witness: a memory hit on the older of two keys, counted in its row
MemoryHitCounted ==
    /\ last.kind = "memory"
    /\ Len(memory_lru) = 2
    /\ IsMRU(last.key, memory_lru)
    /\ db[last.key].hit_count = 2
    /\ db[last.key].last_accessed = last.time
    /\ db[last.key].created_at < last.time

\* get(k) finds nothing usable in memory and an unexpired, loadable file
DiskHitAhead(k) ==
    /\ k \notin DOMAIN memory_cache \/ (now - memory_timestamps[k]) >= ttl
    /\ k \in DOMAIN files
    /\ (now - files[k].mtime) < ttl
    /\ Loads(files[k].data)

\* the key just read is in the memory tier, most recently used, at the
\* price of the least recently used key if the tier was full
Promoted ==
    LET k == last'.key
        others == (DOMAIN memory_cache) \ {k}
    IN  /\ k \in DOMAIN memory_cache'
        /\ memory_cache'[k] = last'.ret
        /\ IsMRU(k, memory_lru')
        /\ Evicted = IF Cardinality(others) >= memory_limit
                     THEN {Oldest(others)} ELSE {}

\* C10 as stated: a get that misses memory and finds an unexpired payload on
\* disk returns the stored value, leaves the key in the memory tier at the
\* most-recently-used position, the least recently used key evicted if the
\* tier was full, and leaves the payload file in place.
PromotionAnyCapacity ==
    [][ (Completes("get") /\ DiskHitAhead(last'.key))
            => /\ last'.ret = Unpickle(files[last'.key].data)
               /\ last'.key \in DOMAIN files'
               /\ files'[last'.key] = files[last'.key]
               /\ Promoted ]_vars

\* C10 amended: the same, the key entering the memory tier only when the
\* memory capacity is at least 1.
Promotion ==
    [][ (Completes("get") /\ DiskHitAhead(last'.key))
            => /\ last'.ret = Unpickle(files[last'.key].data)
               /\ last'.key \in DOMAIN files'
               /\ files'[last'.key] = files[last'.key]
               /\ memory_limit >= 1 => Promoted ]_vars

\* C10 witness: a promotion into a full tier of two keys; the key read came
\* back from disk and the oldest of the two keys held left the tier
PromotedIntoFullTier ==
    /\ last.kind = "disk"
    /\ memory_limit = 2
    /\ Len(recency) = 3
    /\ recency[1] \notin DOMAIN memory_cache
    /\ memory_lru = <<recency[2], recency[3]>>
    /\ recency[3] = last.key
    /\ last.key \in DOMAIN files
    /\ memory_cache[last.key] = last.ret
    /\ last.ret \in Values

(***************************************************************************)
(* Failures of the disk                                                    *)
(***************************************************************************)
FailedSet == last.op = "set" /\ last.fault # "none"

\* a get without a failure of its own, of the key of the failed set just made
GetAfterFailedSet ==
    /\ FailedSet
    /\ last.time = now
    /\ Completes("get")
    /\ last'.key = last.key
    /\ last'.fault = "none"

IndexFailureContained ==
    [][ (Completes("get") /\ last'.fault = "index")
            => /\ ~last'.raised
               /\ last'.ret = IF /\ last'.key \in DOMAIN memory_cache
                                 /\ (now - memory_timestamps[last'.key]) < ttl
                              THEN memory_cache[last'.key]
                              ELSE None ]_vars

\* get(k) finds nothing usable in memory and an unexpired file that does
\* not load
CorruptAhead(k) ==
    /\ k \notin DOMAIN memory_cache \/ (now - memory_timestamps[k]) >= ttl
    /\ k \in DOMAIN files
    /\ (now - files[k].mtime) < ttl
    /\ ~Loads(files[k].data)

\* C13: a get that reaches an unexpired payload file that cannot be
\* deserialized returns a miss without raising; after the call the file does
\* not exist and the memory tier does not contain the key.
CorruptPayloadDropped ==
    [][ (Completes("get") /\ CorruptAhead(last'.key))
            => /\ last'.ret = None
               /\ ~last'.raised
               /\ last'.key \notin DOMAIN files'
               /\ last'.key \notin DOMAIN memory_cache' ]_vars

\* C13 witness: a key whose set left a truncated payload file was evicted
\* from a memory tier of capacity 1 by another key; the get of it missed and
\* removed the file
CorruptPayloadSeen ==
    /\ last.op = "get"
    /\ last.kind = "error"
    /\ last.fault = "none"
    /\ memory_limit = 1
    /\ WasSet(last.key)
    /\ last.ret = None
    /\ last.key \notin DOMAIN files
    /\ last.key \notin DOMAIN memory_cache
    /\ memory_lru # <<>>

(***************************************************************************)
(* clear                                                                   *)
(***************************************************************************)
\* the key has an entry in the memory tier or a payload file
Held(k) == k \in DOMAIN memory_cache \/ k \in DOMAIN files
HeldAfter(k) == k \in DOMAIN memory_cache' \/ k \in DOMAIN files'

\* C14: after clear() with no argument the memory tier is empty, no payload
\* file exists and the index has no rows; every get returns a miss until the
\* next set of that key: a key held by neither tier stays so through every
\* call that is not a set of it, and a get of it misses.
FullClearWipes ==
    [][ /\ (Completes("clear") /\ last'.older = 0)
            => /\ memory_cache' = Empty
               /\ memory_timestamps' = Empty
               /\ memory_lru' = <<>>
               /\ files' = Empty
               /\ db' = Empty
        /\ \A k \in Keys :
              (~Held(k) /\ ~(Completes("set") /\ last'.key = k))
                 => /\ ~HeldAfter(k)
                    /\ (Completes("get") /\ last'.key = k)
                          => (last'.ret = None /\ ~last'.raised) ]_vars

\* C14 witness: a get that misses a key set at the same instant, both tiers
\* and the index being empty: a full clear came between the set and the get
MissAfterFullClear ==
    /\ last.op = "get"
    /\ last.kind = "miss"
    /\ lastSet[last.key].time = last.time
    /\ memory_cache = Empty
    /\ files = Empty
    /\ db = Empty

\* the time of the latest set or returning get of a key that has a row: every
\* set and every get that returns a value stamps the row with the clock
LastAccessed(k) == db[k].last_accessed

\* C15: clear(older_than = d) with d > 0 removes from the memory tier and
\* from the persistent tier exactly the entries whose last-accessed time is
\* more than d seconds in the past; an entry set or returned by get within
\* the last d seconds remains in both tiers it was in.
SelectiveClear ==
    [][ (Completes("clear") /\ last'.older > 0)
            => \A k \in DOMAIN db :
                 LET old == (now - LastAccessed(k)) > last'.older
                 IN  /\ k \in DOMAIN memory_cache
                          => (k \in DOMAIN memory_cache' <=> ~old)
                     /\ k \in DOMAIN files
                          => (k \in DOMAIN files' <=> ~old) ]_vars

(***************************************************************************)
(* Templates                                                               *)
(***************************************************************************)
\* the word is a token of the kind the placeholder stands for
IsToken(placeholder, word) ==
    /\ word # <<>>
    /\ \A i \in 1..Len(word) :
         CASE placeholder \in {TablePh, FieldPh} -> IsWord(word[i])
           [] placeholder = ValuePh -> word[i] \notin {",", ".", " ", "\t", "\n"}
           [] placeholder = NumberPh -> IsDigit(word[i])

\* the ways of filling the placeholders of the pieces, left to right, so that
\* the whole question is spelled, letters compared without case
RECURSIVE Fillings(_, _)
Fillings(pieces, question) ==
    IF pieces = <<>>
    THEN IF question = <<>> THEN {<<>>} ELSE {}
    ELSE LET piece == Head(pieces)
             After(n) == SubSeq(question, n + 1, Len(question))
         IN  IF piece \in Placeholders
             THEN UNION { { <<SubSeq(question, 1, n)>> \o f : f \in Fillings(Tail(pieces), After(n)) } :
                          n \in {m \in 1..Len(question) : IsToken(piece, SubSeq(question, 1, m))} }
             ELSE IF /\ Len(question) >= Len(piece)
                     /\ Lower(SubSeq(question, 1, Len(piece))) = Lower(piece)
                  THEN Fillings(Tail(pieces), After(Len(piece)))
                  ELSE {}

HasPlaceholder(pieces) == \E i \in 1..Len(pieces) : pieces[i] \in Placeholders

\* C16, for a pattern with a placeholder: matches(question) succeeds if and only if the entire question,
\* compared case-insensitively, has the shape of the pattern, {table} and
\* {field} filled by one word-like token, {value} by one token without comma,
\* period or whitespace, {number} by one or more digits; on success it
\* returns the captured strings in the left-to-right order of the placeholders.
MatchesWholeQuestion ==
    (tcase.op = "matches" /\ tcase.done /\ HasPlaceholder(tcase.pieces))
        => /\ tcase.ret.matched <=> Fillings(tcase.pieces, tcase.question) # {}
           /\ tcase.ret.matched
                => tcase.ret.params \in Fillings(tcase.pieces, tcase.question)

\* the positional placeholders $i a text refers to: "$" and the decimal
\* numeral of i >= 1 that follows it
DigitVal(ch) == CHOOSE d \in 0..9 : Digit(d) = ch
RECURSIVE NumVal(_)
NumVal(ds) ==
    IF ds = <<>> THEN 0
    ELSE 10 * NumVal(SubSeq(ds, 1, Len(ds) - 1)) + DigitVal(ds[Len(ds)])
DigitsAt(s, i) == SubSeq(s, i, i + Run(GroupNumber, SubSeq(s, i, Len(s))) - 1)
Refs(s) ==
    { NumVal(DigitsAt(s, i + 1)) :
        i \in {j \in 1..Len(s) : /\ s[j] = "$"
                                 /\ DigitsAt(s, j + 1) # <<>>
                                 /\ DigitsAt(s, j + 1)[1] # "0"} }

\* C17: for a declarative template generate_query never returns a query
\* that still contains a positional placeholder $i, and it returns None
\* whenever the shape refers to a $i with i greater than the number of
\* parameters supplied.
NoPartialSubstitution ==
    (tcase.op = "generate_query" /\ tcase.done /\ tcase.template.generator_func = NoFunc)
        => /\ tcase.ret.query # <<>> => Refs(tcase.ret.query[1].sql) = {}
           /\ ( /\ tcase.template.sql_template # NoShape
                /\ \E i \in Refs(tcase.template.sql_template[1]) : i > Len(tcase.params) )
                => tcase.ret.query = <<>>

\* the template at index i matches the question and applies to the schema
Eligible(tpls, i, question, db_schema) ==
    /\ matches(tpls[i], question).matched
    /\ \/ tpls[i].applicable_tables = <<>>
       \/ Elems(tpls[i].applicable_tables) \cap available_tables(db_schema) # {}

EligibleSet(tpls, question, db_schema) ==
    {i \in 1..Len(tpls) : Eligible(tpls, i, question, db_schema)}

Smallest(S) == CHOOSE i \in S : \A j \in S : i <= j

\* C18: find_matching_template(question, schema) returns the template with
\* the smallest registry index among those that match the question and either
\* declare no applicable tables or declare a table of schema['tables'],
\* together with the parameters that template captured; it returns None
\* exactly when there is no such template.
FirstMatchSelected ==
    tcase.op = "find"
        => LET E == EligibleSet(templates, tcase.question, tcase.db_schema)
           IN  IF E = {}
               THEN tcase.ret = <<>>
               ELSE tcase.ret =
                      <<[template |-> templates[Smallest(E)],
                         params |-> matches(templates[Smallest(E)], tcase.question).params]>>

\* C18 witness: the first template that matches is ruled out by its tables,
\* the second one is selected, and a third one would have applied as well
ScopedTemplateSkipped ==
    /\ tcase.op = "find"
    /\ tcase.ret # <<>>
    /\ LET E == EligibleSet(templates, tcase.question, tcase.db_schema)
       IN  /\ Cardinality(E) >= 2
           /\ tcase.ret[1].template = templates[Smallest(E)]
           /\ tcase.ret[1].params # <<>>
           /\ \E i \in 1..(Smallest(E) - 1) :
                 /\ matches(templates[i], tcase.question).matched
                 /\ templates[i].applicable_tables # <<>>

\* two selections name a template of the same pattern, description and
\* query shape, or both name none
SamePick(a, b) ==
    IF a = <<>> \/ b = <<>>
    THEN a = b
    ELSE /\ a[1].template.pattern = b[1].template.pattern
         /\ a[1].template.description = b[1].template.description
         /\ a[1].template.sql_template = b[1].template.sql_template

\* C19: after any sequence of successful save_custom_template calls the
\* registry of the live analyzer is the built-in templates followed by the
\* persisted list in file order, so that a QueryAnalyzer newly constructed on
\* the same file selects, for every question and schema, a template of the
\* same pattern, description and query shape as the live analyzer does.
ReloadAgrees ==
    \A question \in Questions, db_schema \in Schemas :
        SamePick(find_matching_template(templates, question, db_schema),
                 find_matching_template(QueryAnalyzer(template_file), question, db_schema))

Saved == tcase'.op = "save" /\ tcase'.ret /\ templates' # templates

\* the persisted list of descriptors
Persisted(content) ==
    IF content = NoFile \/ content = Unreadable THEN <<>> ELSE content[2]

DistinctPatterns(list) ==
    \A i, j \in 1..Len(list) : list[i].pattern = list[j].pattern => i = j

\* C20: in the persisted list, saving a template whose pattern equals that
\* of a descriptor overwrites that descriptor at its index and leaves the
\* length of the list and every other descriptor as they were; saving a
\* template with a new pattern appends one descriptor at the end; no two
\* persisted descriptors ever share a pattern.
SaveReplacesInPlace ==
    [][ Saved
          => LET before == Persisted(template_file)
                 after == Persisted(template_file')
                 data == template_data(tcase'.template)
                 same == {i \in 1..Len(before) : before[i].pattern = data.pattern}
             IN  /\ IF same # {}
                    THEN /\ Len(after) = Len(before)
                         /\ \E i \in same :
                              /\ after[i] = data
                              /\ \A j \in (1..Len(before)) \ {i} : after[j] = before[j]
                    ELSE after = Append(before, data)
                 /\ DistinctPatterns(after) ]_vars

\* C20 witness: the third save overwrote the first of two descriptors with
\* another description, the second descriptor staying where it was
DescriptorReplaced ==
    /\ tcase.op = "save"
    /\ tcase.ret
    /\ Len(templates) = Len(_load_default_templates) + 3
    /\ Len(Persisted(template_file)) = 2
    /\ Persisted(template_file)[1] = template_data(tcase.template)
    /\ Persisted(template_file)[2] = template_data(templates[Len(templates) - 1])
    /\ templates[Len(templates) - 2].pattern = tcase.template.pattern
    /\ templates[Len(templates) - 2].description # tcase.template.description

(***************************************************************************)
(* Concurrent callers of _update_metadata                                  *)
(*                                                                         *)
(* Every call opens a connection of its own (line 97), runs the SELECT of  *)
(* line 103 outside any transaction and writes with a second statement     *)
(* that is committed at line 121.  SQLite serialises the statements, not   *)
(* the call, so a caller is at one of two positions: before its SELECT     *)
(* ("idle") or between its SELECT and its write ("selected").  The callers *)
(* are get hits and sets of one key made by several threads or processes   *)
(* over one cache directory; only the index row takes part.                *)
(***************************************************************************)
MaxCallers == 2   \* threads or processes that share the cache directory
MaxCalls == 2     \* calls of _update_metadata made by one caller
MaxHits == 2      \* hit_count of the row when the callers start, 0 for no row

\* lines 103-104: the row of the SELECT, None when there is none
select_hit_count(d, query_hash) ==
    IF query_hash \in DOMAIN d THEN <<d[query_hash].hit_count>> ELSE <<>>

\* lines 106-121 on table d with the row that the SELECT returned: the
\* UPDATE writes the count that was read plus one, the INSERT of a key that
\* is in the table by now violates the PRIMARY KEY of line 59 and raises
write_metadata(d, query_hash, query, config_id, t, result) ==
    IF result # <<>>
    THEN [db |-> IF query_hash \in DOMAIN d
                 THEN [d EXCEPT ![query_hash].last_accessed = t,
                                ![query_hash].hit_count = result[1] + 1]
                 ELSE d,
          raised |-> FALSE]
    ELSE IF query_hash \in DOMAIN d
         THEN [db |-> d, raised |-> TRUE]
         ELSE [db |-> Put(d, query_hash,
                          [query |-> query, config_id |-> config_id,
                           created_at |-> t, last_accessed |-> t,
                           hit_count |-> 1]),
               raised |-> FALSE]

Callers == 1..MaxCallers

InitCallers ==
    /\ memory_cache = Empty
    /\ memory_timestamps = Empty
    /\ memory_lru = <<>>
    /\ memory_limit = 0
    /\ ttl = 1
    /\ now = 0
    /\ step = 0
    /\ recency = <<>>
    /\ lastSet = [k \in Keys |-> NeverSet]
    /\ last = NoCall
    /\ fp = FpIdle
    /\ templates = <<>>
    /\ template_file = NoFile
    /\ tcase = NoCase
    /\ query_log = <<>>
    /\ query_patterns = Empty
    /\ \E r \in Requests, hits \in 0..MaxHits :
          LET first == _update_metadata(Empty, KeyOf(r), r.query, r.config_id, 0)
          IN  /\ files = IF hits = 0 THEN Empty
                         ELSE write_payload(Empty, KeyOf(r), "v1", 0)
              /\ db = IF hits = 0 THEN Empty
                      ELSE [first EXCEPT ![KeyOf(r)].hit_count = hits]
              /\ callers = [req |-> r, hits |-> hits, completed |-> 0,
                            raised |-> FALSE,
                            at |-> [c \in Callers |->
                                       [pc |-> "idle", result |-> <<>>,
                                        calls |-> 0]]]

\* caller c enters _update_metadata and runs the SELECT of line 103
SelectHitCount(c) ==
    /\ callers.at[c].pc = "idle"
    /\ callers.at[c].calls < MaxCalls
    /\ callers' = [callers EXCEPT
                     !.at[c].pc = "selected",
                     !.at[c].result = select_hit_count(db, KeyOf(callers.req))]
    /\ UNCHANGED <<memory_cache, memory_timestamps, memory_lru, memory_limit,
                   ttl, files, db, now, step, recency, lastSet, last, fp,
                   templateVars, query_log, query_patterns>>

\* caller c writes the row and commits, lines 106-122
WriteMetadata(c) ==
    /\ callers.at[c].pc = "selected"
    /\ LET r == callers.req
           out == write_metadata(db, KeyOf(r), r.query, r.config_id, now,
                                 callers.at[c].result)
       IN  /\ db' = out.db
           /\ callers' = [callers EXCEPT
                            !.at[c].pc = "idle",
                            !.at[c].result = <<>>,
                            !.at[c].calls = @ + 1,
                            !.completed = @ + 1,
                            !.raised = out.raised]
    /\ UNCHANGED <<memory_cache, memory_timestamps, memory_lru, memory_limit,
                   ttl, files, now, step, recency, lastSet, last, fp,
                   templateVars, query_log, query_patterns>>

NextCallers ==
    \/ \E c \in Callers : SelectHitCount(c)
    \/ \E c \in Callers : WriteMetadata(c)

SpecCallers == InitCallers /\ [][NextCallers]_vars

(***************************************************************************)
(* Threads that interleave set and get on one QueryCache                   *)
(*                                                                         *)
(* The class takes no lock, so another thread may run between any two      *)
(* statements of get, set and _update_memory_lru.  A thread is at the      *)
(* statement named by the source line in `pc`; its locals are `timestamp`, *)
(* `oldest_hash` and `result`; `back` is the line that follows its call of *)
(* _update_memory_lru.  The payload and index statements of one call are   *)
(* one step each.                                                          *)
(***************************************************************************)
MaxThreadCalls == 1   \* calls made by one thread
MaxWarmKeys == 2      \* keys set before the threads start

Idle ==
    [pc |-> "idle", op |-> "none", req |-> NoReq, val |-> None,
     timestamp |-> 0, oldest_hash |-> NoKey, result |-> None, back |-> "idle",
     calls |-> 0, raised |-> "none", ret |-> None]

\* the state after thread th ran the statement it is at, at time t
statement(th, m, f, d, t) ==
    LET query_hash == KeyOf(th.req)
        Step(th1, m1, f1, d1) == [th |-> th1, m |-> m1, files |-> f1, db |-> d1]
        Go(line) == Step([th EXCEPT !.pc = line], m, f, d)
        Return(value, m1, f1, d1) ==
            Step([th EXCEPT !.pc = "idle", !.calls = @ + 1, !.ret = value], m1, f1, d1)
        \* an exception inside the try of get (lines 174-185) is handled at
        \* line 186; any other one leaves the call
        Raise(error) ==
            IF th.back = "181"
            THEN Return(None, m, unlink(f, query_hash), d)
            ELSE Step([th EXCEPT !.pc = "idle", !.calls = @ + 1,
                                 !.raised = error, !.ret = None], m, f, d)
    IN  CASE th.pc = "207" ->
               Step([th EXCEPT !.pc = "208"],
                    [m EXCEPT !.cache = Put(m.cache, query_hash, th.val)], f, d)
          [] th.pc = "208" ->
               Step([th EXCEPT !.pc = "126", !.back = "213"],
                    [m EXCEPT !.ts = Put(m.ts, query_hash, t)], f, d)
          [] th.pc = "213" ->
               Return(None, m, write_payload(f, query_hash, th.val, t),
                      _update_metadata(d, query_hash, th.req.query, th.req.config_id, t))
          \* _update_memory_lru
          [] th.pc = "126" ->
               IF InSeq(query_hash, m.lru) THEN Go("128") ELSE Go("130")
          [] th.pc = "128" ->
               IF InSeq(query_hash, m.lru)
               THEN Step([th EXCEPT !.pc = "130"],
                         [m EXCEPT !.lru = RemoveFirst(m.lru, query_hash)], f, d)
               ELSE Raise("ValueError")
          [] th.pc = "130" ->
               Step([th EXCEPT !.pc = "133"],
                    [m EXCEPT !.lru = Append(m.lru, query_hash)], f, d)
          [] th.pc = "133" ->
               IF Len(m.lru) > memory_limit THEN Go("134") ELSE Go(th.back)
          [] th.pc = "134" ->
               IF m.lru # <<>>
               THEN Step([th EXCEPT !.pc = "135", !.oldest_hash = Head(m.lru)],
                         [m EXCEPT !.lru = Tail(m.lru)], f, d)
               ELSE Raise("IndexError")
          [] th.pc = "135" ->
               IF th.oldest_hash \in DOMAIN m.cache THEN Go("136") ELSE Go(th.back)
          [] th.pc = "136" ->
               IF th.oldest_hash \in DOMAIN m.cache
               THEN Step([th EXCEPT !.pc = "137"],
                         [m EXCEPT !.cache = Drop(m.cache, th.oldest_hash)], f, d)
               ELSE Raise("KeyError")
          [] th.pc = "137" ->
               IF th.oldest_hash \in DOMAIN m.ts
               THEN Step([th EXCEPT !.pc = th.back],
                         [m EXCEPT !.ts = Drop(m.ts, th.oldest_hash)], f, d)
               ELSE Raise("KeyError")
          \* get
          [] th.pc = "154" ->
               IF query_hash \in DOMAIN m.cache THEN Go("155") ELSE Go("168")
          [] th.pc = "155" ->
               IF query_hash \in DOMAIN m.ts
               THEN Step([th EXCEPT !.pc = "156", !.timestamp = m.ts[query_hash]],
                         m, f, d)
               ELSE Raise("KeyError")
          [] th.pc = "156" ->
               IF (t - th.timestamp) < ttl
               THEN Step([th EXCEPT !.pc = "126", !.back = "158"], m, f, d)
               ELSE Go("162")
          [] th.pc = "158" ->
               Step([th EXCEPT !.pc = "160"], m, f,
                    _update_metadata(d, query_hash, th.req.query, th.req.config_id, t))
          [] th.pc = "160" ->
               IF query_hash \in DOMAIN m.cache
               THEN Return(m.cache[query_hash], m, f, d)
               ELSE Raise("KeyError")
          [] th.pc = "162" ->
               IF query_hash \in DOMAIN m.cache
               THEN Step([th EXCEPT !.pc = "163"],
                         [m EXCEPT !.cache = Drop(m.cache, query_hash)], f, d)
               ELSE Raise("KeyError")
          [] th.pc = "163" ->
               IF query_hash \in DOMAIN m.ts
               THEN Step([th EXCEPT !.pc = "164"],
                         [m EXCEPT !.ts = Drop(m.ts, query_hash)], f, d)
               ELSE Raise("KeyError")
          [] th.pc = "164" ->
               IF InSeq(query_hash, m.lru) THEN Go("165") ELSE Go("168")
          [] th.pc = "165" ->
               IF InSeq(query_hash, m.lru)
               THEN Step([th EXCEPT !.pc = "168"],
                         [m EXCEPT !.lru = RemoveFirst(m.lru, query_hash)], f, d)
               ELSE Raise("ValueError")
          \* lines 168-176 and 190-194: the payload file is looked up and read
          [] th.pc = "168" ->
               IF query_hash \notin DOMAIN f THEN Return(None, m, f, d)
               ELSE IF (t - f[query_hash].mtime) < ttl /\ Loads(f[query_hash].data)
               THEN Step([th EXCEPT !.pc = "178",
                                    !.result = Unpickle(f[query_hash].data)], m, f, d)
               ELSE Return(None, m, unlink(f, query_hash), d)
          [] th.pc = "178" ->
               Step([th EXCEPT !.pc = "179"],
                    [m EXCEPT !.cache = Put(m.cache, query_hash, th.result)], f, d)
          [] th.pc = "179" ->
               Step([th EXCEPT !.pc = "126", !.back = "181"],
                    [m EXCEPT !.ts = Put(m.ts, query_hash, t)], f, d)
          [] th.pc = "181" ->
               Return(th.result, m, f,
                      _update_metadata(d, query_hash, th.req.query, th.req.config_id, t))

\* the cache after one caller alone made the sets of reqs, in order, at time 0
RECURSIVE after_sets(_)
after_sets(reqs) ==
    IF reqs = <<>>
    THEN [m |-> [cache |-> Empty, ts |-> Empty, lru |-> <<>>],
          files |-> Empty, db |-> Empty]
    ELSE LET st == after_sets(SubSeq(reqs, 1, Len(reqs) - 1))
             r == reqs[Len(reqs)]
         IN  [m |-> _update_memory_lru(
                       [cache |-> Put(st.m.cache, KeyOf(r), "v2"),
                        ts    |-> Put(st.m.ts, KeyOf(r), 0),
                        lru   |-> st.m.lru], KeyOf(r)),
              files |-> write_payload(st.files, KeyOf(r), "v2", 0),
              db |-> _update_metadata(st.db, KeyOf(r), r.query, r.config_id, 0)]

InitThreads ==
    /\ memory_limit \in 0..1
    /\ ttl = 1
    /\ now = 0
    /\ \E warm \in SeqsUpTo(FaultRequests, MaxWarmKeys) :
          LET st == after_sets(warm)
          IN  /\ memory_cache = st.m.cache
              /\ memory_timestamps = st.m.ts
              /\ memory_lru = st.m.lru
              /\ files = st.files
              /\ db = st.db
    /\ step = 0
    /\ recency = <<>>
    /\ lastSet = [k \in Keys |-> NeverSet]
    /\ last = NoCall
    /\ fp = FpIdle
    /\ templates = <<>>
    /\ template_file = NoFile
    /\ tcase = NoCase
    /\ query_log = <<>>
    /\ query_patterns = Empty
    /\ callers = [at |-> [c \in Callers |-> Idle]]

\* thread c enters set (result given) or get (result None)
ThreadCall(c, op, r, result) ==
    /\ callers.at[c].pc = "idle"
    /\ callers.at[c].raised = "none"
    /\ callers.at[c].calls < MaxThreadCalls
    /\ callers' = [callers EXCEPT
                     !.at[c] = [@ EXCEPT !.pc = IF op = "set" THEN "207" ELSE "154",
                                         !.op = op, !.req = r, !.val = result,
                                         !.back = "idle"]]
    /\ UNCHANGED <<cacheVars, fp, templateVars, query_log, query_patterns>>

\* thread c runs one statement
ThreadStep(c) ==
    /\ callers.at[c].pc # "idle"
    /\ LET out == statement(callers.at[c], Memory, files, db, now)
       IN  /\ callers' = [callers EXCEPT !.at[c] = out.th]
           /\ memory_cache' = out.m.cache
           /\ memory_timestamps' = out.m.ts
           /\ memory_lru' = out.m.lru
           /\ files' = out.files
           /\ db' = out.db
    /\ UNCHANGED <<memory_limit, ttl, now, step, recency, lastSet, last, fp,
                   templateVars, query_log, query_patterns>>

NextThreads ==
    \/ \E c \in Callers, r \in FaultRequests : ThreadCall(c, "set", r, "v1")
    \/ \E c \in Callers, r \in FaultRequests : ThreadCall(c, "get", r, None)
    \/ \E c \in Callers : ThreadStep(c)
    \/ now < 1 /\ Tick

SpecThreads == InitThreads /\ [][NextThreads]_vars

(***************************************************************************)
(* Properties of the analyzer's loading, log and suggestions               *)
(***************************************************************************)
\* the descriptors of a list whose pattern compiles, in the order of the list
Compiles(data) == ~re_error(_compile_pattern(data.pattern), 0)
ValidTemplates(list) ==
    LET valid == SelectSeq(list, Compiles)
    IN  [i \in 1..Len(valid) |-> FromData(valid[i])]

\* C21: an analyzer constructed on a template file holds the built-in
\* templates followed by the template of every descriptor of the file whose
\* pattern compiles, in file order: a descriptor whose pattern does not
\* compile is left out, those before it and those after it are loaded
MalformedSkipped ==
    (tcase.op = "construct" /\ template_file \notin {NoFile, Unreadable})
        => templates = _load_default_templates \o ValidTemplates(template_file[2])

\* what the fast path returns for table name W
FastPathResult(W) ==
    [op |-> "fast", table |-> W,
     found |-> <<[template |-> _load_default_templates[1], params |-> <<W>>]>>,
     query |-> [raised |-> FALSE,
                query |-> <<[sql |-> <<"S", "E", "L", "E", "C", "T", " ", "*", " ", "F", "R", "O", "M", " ">> \o W \o <<" ", "L", "I", "M", "I", "T", " ", "1", "0", "0">>]>>]]

\* C22: with the built-in templates only, the question "muestra todos los W"
\* of a one-word table name W is matched by the first built-in template with
\* parameters [W], the query generated is SELECT * FROM W LIMIT 100, and the
\* lookup and the generation leave every part of the QueryCache as it was
TemplateFastPath ==
    [][(tcase' # tcase /\ tcase'.op = "fast")
          => (tcase' = FastPathResult(tcase'.table) /\ UNCHANGED cacheVars)]_vars

\* the fast path answered for a table name in capitals beside a warm cache
FastPathBesideWarmCache ==
    /\ tcase = FastPathResult(<<"B", "1">>)
    /\ memory_cache # Empty
    /\ files # Empty

\* the regexes of the list that match the question in lower case
Hits(question) ==
    {i \in 1..Len(common_patterns) : re_search(common_patterns[i], Lower(question)) # <<>>}
FirstHit(question) == CHOOSE i \in Hits(question) : \A j \in Hits(question) : i <= j
\* the label of regex i for the question: its text with the entity captured
LabelOf(i, question) ==
    Replace(common_patterns[i], <<GroupWord>>,
            re_search(common_patterns[i], Lower(question))[1][1])

\* C25: the pattern detected is the label of the first regex of the list
\* that matches the question in lower case, with its captured entity; a
\* question of fewer than three words has no pattern
DetectionOrder ==
    (tcase.op = "detect" /\ tcase.done) =>
        /\ Hits(tcase.question) # {} =>
               tcase.ret = <<LabelOf(FirstHit(tcase.question), tcase.question)>>
        /\ Len(Split(tcase.question)) < 3 => tcase.ret = <<>>

\* a question that two regexes match got the label of the first
TwoRegexesMatched ==
    /\ tcase.op = "detect" /\ tcase.done
    /\ Cardinality(Hits(tcase.question)) = 2
    /\ tcase.ret = <<LabelOf(1, tcase.question)>>

\* the records of the log whose pattern is p, and the sum of one of their
\* fields over the first i records
Logged(p) == {i \in 1..Len(query_log) : query_log[i].pattern = <<p>>}
RECURSIVE LoggedSum(_, _, _)
LoggedSum(p, field, i) ==
    IF i = 0 THEN 0
    ELSE LoggedSum(p, field, i - 1) +
         (IF query_log[i].pattern = <<p>> THEN query_log[i][field] ELSE 0)

LogAppendOnly ==
    [][/\ Len(query_log') >= Len(query_log)
       /\ SubSeq(query_log', 1, Len(query_log)) = query_log
       /\ step' = step + 1 => Len(query_log') = Len(query_log) + 1
       /\ step' = step => query_log' = query_log]_vars

\* a question without pattern was logged after two others, then the
\* suggestions were read
LoggedWithoutPattern ==
    /\ Len(query_log) = 3
    /\ query_log[3].pattern = <<>>
    /\ query_log[1].pattern # <<>>
    /\ tcase.op = "get_optimization_suggestions"

\* the suggestions were read from the tables as they are now
Suggested == tcase.op = "get_optimization_suggestions"

\* C26: there is a 'precompile' suggestion for each pattern of the
\* statistics with count >= 5, however many they are, with savings of 90%
\* of avg_cost * count (to the hundredth), and for no other pattern
PrecompileComplete ==
    Suggested =>
        tcase.ret.precompile =
            {[pattern |-> p, count |-> query_patterns[p].count,
              estimated_savings |->
                  Round2(query_patterns[p].avg_cost.n * query_patterns[p].count * 9,
                         query_patterns[p].avg_cost.d * 10)] :
                p \in {q \in DOMAIN query_patterns : query_patterns[q].count >= 5}}

\* C27: there is an 'analyze' suggestion for each pattern of the statistics
\* with average cost above 0.10 and count < 5, whatever the counts of the
\* other patterns, and for no other; no pattern has both a 'precompile' and
\* an 'analyze' suggestion
AnalyzeComplete ==
    Suggested =>
        /\ {s.pattern : s \in tcase.ret.analyze} =
               {p \in DOMAIN query_patterns :
                   /\ query_patterns[p].avg_cost.n > 10 * query_patterns[p].avg_cost.d
                   /\ query_patterns[p].count < 5}
        /\ {s.pattern : s \in tcase.ret.analyze} \cap
               {s.pattern : s \in tcase.ret.precompile} = {}

\* the records of hour h, when h lies in the trailing 7 days
InTrailing(days) == {i \in 1..Len(query_log) : query_log[i].timestamp > now - 24 * days}

\* C28: there is a 'load_balancing' suggestion for each hour of the
\* trailing 7 days with more than 20 logged queries, however many such
\* hours there are, and for no other hour
LoadBalancingComplete ==
    Suggested =>
        {s.hour : s \in tcase.ret.load_balancing} =
            {h \in {query_log[i].timestamp : i \in InTrailing(7)} :
                Cardinality({i \in InTrailing(7) : query_log[i].timestamp = h}) > 20}

\* C29: the volume and the cache-TTL suggestions are there exactly when
\* more than 100 queries were logged in the trailing 30 days; the suggested
\* TTL lies in [3600, 259200] seconds and one more query does not raise it
VolumeSuggestionsBounded ==
    Suggested =>
        LET query_count == Cardinality(InTrailing(30))
        IN  /\ tcase.ret.volume_plan # {} <=> query_count > 100
            /\ tcase.ret.cache_adjustment # {} <=> query_count > 100
            /\ \A s \in tcase.ret.cache_adjustment :
                   /\ 3600 * s.suggested_ttl.d <= s.suggested_ttl.n
                   /\ s.suggested_ttl.n <= 259200 * s.suggested_ttl.d
            /\ query_count > 100 =>
                   suggested_ttl(query_count + 1).n * suggested_ttl(query_count).d
                       <= suggested_ttl(query_count).n * suggested_ttl(query_count + 1).d

(***************************************************************************)
(* Properties of concurrent index updates                                  *)
(***************************************************************************)
\* no caller is between its SELECT and its write
AllCompleted == \A c \in Callers : callers.at[c].pc = "idle"

\* the row of the key that the callers update
CallersRow == db[KeyOf(callers.req)]

\* a call of one caller alone is QueryCache._update_metadata
AloneAgrees ==
    \A r \in Requests :
       LET k == KeyOf(r)
       IN  write_metadata(db, k, r.query, r.config_id, now,
                          select_hit_count(db, k)).db
             = _update_metadata(db, k, r.query, r.config_id, now)

\* C30: when the callers of _update_metadata on one existing row have all
\* completed, no update is lost: the row's hit_count has increased by the
\* number of completed calls (by exactly two after two concurrent calls)
NoLostUpdate ==
    (AllCompleted /\ callers.hits > 0)
       => CallersRow.hit_count = callers.hits + callers.completed

(***************************************************************************)
(* Properties of the cache as a whole: footprint, eviction, staleness      *)
(***************************************************************************)
\* the keys other than k whose payload file or index row differs between
\* the two states of a step
PersistentChanged(k) ==
    {j \in ((DOMAIN files) \cup (DOMAIN files') \cup (DOMAIN db) \cup (DOMAIN db')) \ {k} :
        \/ (j \in DOMAIN files) # (j \in DOMAIN files')
        \/ (j \in DOMAIN files /\ j \in DOMAIN files' /\ files[j] # files'[j])
        \/ (j \in DOMAIN db) # (j \in DOMAIN db')
        \/ (j \in DOMAIN db /\ j \in DOMAIN db' /\ db[j] # db'[j])}

\* the keys other than k whose memory entry differs between the two states
MemoryChanged(k) ==
    {j \in ((DOMAIN memory_cache) \cup (DOMAIN memory_cache')) \ {k} :
        \/ j \notin DOMAIN memory_cache
        \/ j \notin DOMAIN memory_cache'
        \/ memory_cache[j] # memory_cache'[j]
        \/ memory_timestamps[j] # memory_timestamps'[j]}

\* C31: a get or set on key k leaves the payload file and the index row of
\* every other key as they were, and changes the memory tier for other keys
\* only by evicting at most one key, the least recently used one
SingleKeyFootprint ==
    [][ (Completes("set") \/ Completes("get"))
            => LET k == last'.key
               IN  /\ PersistentChanged(k) = {}
                   /\ Cardinality(MemoryChanged(k)) <= 1
                   /\ \A j \in MemoryChanged(k) :
                         /\ j \notin DOMAIN memory_cache'
                         /\ j = Head(memory_lru) ]_vars

\* C31 witness: a set evicted another key from the memory tier and the
\* payload file and index row of that key are still there; clear is the
\* call that removes several keys' entries
EvictedKeyKeepsItsFiles ==
    /\ last.op = "set"
    /\ memory_limit = 1
    /\ DOMAIN memory_cache = {last.key}
    /\ \E j \in (DOMAIN files) \ {last.key} :
          /\ j \in DOMAIN db
          /\ lastSet[j].time >= 0
          /\ Unpickle(files[j].data) = lastSet[j].val

\* C33: eviction from the memory tier leaves the payload file and the index
\* row of the evicted key as they were, so (no clear in between, every disk
\* write succeeding) a get for a key that is out of the memory tier, issued
\* before the TTL of its last set elapses, returns the last set value, for
\* every memory capacity including 0
EvictionLosesNothing ==
    [][ /\ (Completes("set") \/ Completes("get"))
            => \A j \in Evicted :
                  /\ j \in DOMAIN files' /\ files'[j] = files[j]
                  /\ j \in DOMAIN db' /\ db'[j] = db[j]
        /\ (/\ Completes("get")
            /\ last'.key \notin DOMAIN memory_cache
            /\ lastSet[last'.key].time >= 0
            /\ (now - lastSet[last'.key].time) < ttl)
            => /\ ~last'.raised
               /\ last'.ret = lastSet[last'.key].val ]_vars

\* C33 witness: with capacity 1 a key was set, then evicted by the set of
\* another key, and the get that followed returned its value from disk
EvictedKeyReturned ==
    /\ memory_limit = 1
    /\ last.op = "get"
    /\ last.kind = "disk"
    /\ last.ret = lastSet[last.key].val
    /\ \E j \in Keys \ {last.key} :
          /\ lastSet[j].time >= lastSet[last.key].time
          /\ j \in DOMAIN files
          /\ j \notin DOMAIN memory_cache

\* C34: whatever disk writes of set fail, a get for key k returns a miss or
\* the value passed to the most recent set of k, never the value of an
\* earlier set of k
NoStaleRead ==
    [][ Completes("get")
            => \/ last'.ret = None
               \/ last'.ret = lastSet[last'.key].val ]_vars

\* C35: once get returned a miss for key k, a later get for k returns a miss
\* too until k is set again, also when an index write fails during a get;
\* stated for the get of k that follows the miss with no other call between
\* them, whatever time passes
MissIsStable ==
    [][ (/\ last.op = "get"
         /\ ~last.raised
         /\ last.ret = None
         /\ Completes("get")
         /\ last'.key = last.key)
            => last'.ret = None ]_vars

\* C36: two requests whose triples (normalized question, configuration id,
\* scope) differ have different digest inputs and so different keys, also
\* when a component contains "|" or the scope is the empty string; a get
\* under one configuration id therefore never reads what was set under
\* another one
RequestIsolation ==
    ( /\ Fingerprinted
      /\ <<normalized_query(fp.r1.query), fp.r1.config_id, fp.r1.collection_name>>
           # <<normalized_query(fp.r2.query), fp.r2.config_id, fp.r2.collection_name>> )
        => /\ hash_input(fp.r1.query, fp.r1.config_id, fp.r1.collection_name)
                # hash_input(fp.r2.query, fp.r2.config_id, fp.r2.collection_name)
           /\ fp.k1 # fp.k2

(***************************************************************************)
(* Properties of the memory tier under interleaved threads                 *)
(***************************************************************************)
\* no thread is inside a call
ThreadsIdle == \A c \in Callers : callers.at[c].pc = "idle"

\* C32: when two threads interleave set and get at statement granularity,
\* no call ends with a KeyError, ValueError or IndexError, and once every
\* call has completed memory_cache, memory_timestamps and memory_lru hold
\* the same keys, at most memory_limit of them
InterleavedMemoryTier ==
    /\ \A c \in Callers : callers.at[c].raised = "none"
    /\ ThreadsIdle
          => /\ DOMAIN memory_cache = DOMAIN memory_timestamps
             /\ DOMAIN memory_cache = Elems(memory_lru)
             /\ Len(memory_lru) = Cardinality(Elems(memory_lru))
             /\ Cardinality(DOMAIN memory_cache) <= memory_limit

\* the key sets differ after every call has completed without an error
QuietlyInconsistent ==
    /\ ThreadsIdle
    /\ \A c \in Callers : callers.at[c].raised = "none" /\ callers.at[c].calls = 1
    /\ \/ DOMAIN memory_cache # Elems(memory_lru)
       \/ Cardinality(DOMAIN memory_cache) > memory_limit

(***************************************************************************)
(* Properties of substitution, the built-in templates and persistence      *)
(***************************************************************************)
\* every "$" of the shape begins a placeholder $i with 1 <= i <= n
RefersOnlyTo(shape, n) ==
    \A j \in 1..Len(shape) :
        shape[j] = "$"
            => /\ DigitsAt(shape, j + 1) # <<>>
               /\ DigitsAt(shape, j + 1)[1] # "0"
               /\ NumVal(DigitsAt(shape, j + 1)) \in 1..n

\* the shape with every placeholder replaced at once by its parameter
RECURSIVE Simultaneous(_, _)
Simultaneous(shape, params) ==
    IF shape = <<>> THEN <<>>
    ELSE IF shape[1] = "$"
    THEN LET digits == DigitsAt(shape, 2)
         IN  params[NumVal(digits)]
               \o Simultaneous(SubSeq(shape, Len(digits) + 2, Len(shape)), params)
    ELSE <<shape[1]>> \o Simultaneous(Tail(shape), params)

\* C37: for a declarative template whose shape refers only to $1..$n and n
\* parameters, generate_query returns the shape with every $i replaced by
\* the i-th parameter verbatim, also when a parameter contains "$" or the
\* text of another placeholder
SimultaneousSubstitution ==
    ( /\ tcase.op = "generate_query"
      /\ tcase.done
      /\ tcase.template.generator_func = NoFunc
      /\ tcase.template.sql_template # NoShape
      /\ tcase.template.sql_template[1] # <<>>
      /\ RefersOnlyTo(tcase.template.sql_template[1], Len(tcase.params)) )
        => tcase.ret.query
             = <<[sql |-> Simultaneous(tcase.template.sql_template[1], tcase.params)]>>

\* the number of capturing groups of a compiled pattern
GroupCount(regex) == Cardinality({i \in 1..Len(regex) : regex[i] \in Groups})

\* C38: no built-in template is dead: whenever a built-in template matches
\* a question, generate_query on the captured parameters returns a query;
\* equivalently no built-in shape refers to a $i with i greater than the
\* number of placeholders of its pattern
BuiltinsAlive ==
    (tcase.op = "use" /\ tcase.done)
        => /\ tcase.ret.matched
                => (~tcase.query.raised /\ tcase.query.query # <<>>)
           /\ tcase.template.sql_template # NoShape
                => \A n \in Refs(tcase.template.sql_template[1]) :
                        n <= GroupCount(tcase.template.regex)

\* C39: a template saved with save_custom_template and loaded by a new
\* QueryAnalyzer from the same file matches the same questions with the
\* same parameters and generates the same query for them as the original,
\* for declarative templates and for templates with a generator function
PersistenceRoundTrip ==
    (tcase.op = "save" /\ tcase.ret)
        => LET original == tcase.template
               reloaded == QueryAnalyzer(template_file)
           IN  \E i \in (Len(_load_default_templates) + 1)..Len(reloaded) :
                  /\ reloaded[i].pattern = original.pattern
                  /\ \A question \in Questions, db_schema \in Schemas :
                        LET m == matches(original, question)
                        IN  /\ matches(reloaded[i], question) = m
                            /\ m.matched
                                 => generate_query(reloaded[i], m.params, db_schema)
                                      = generate_query(original, m.params, db_schema)

====
